---- MODULE Spec2Model ----
(***************************************************************************)
(* Model of the liturgical-calendar MCP server: the response normalizer    *)
(* (formatCalendarResponse), the date and filter rules it uses, and the    *)
(* calendar tool handler that feeds it.                                    *)
(*                                                                         *)
(* JavaScript values are records tagged by their type in field t.  Strings *)
(* are TLA+ strings read character by character with SubSeq.  A Date is    *)
(* its time value split into the day number and the milliseconds within    *)
(* the day (ECMA-262 Day(t) and TimeWithinDay(t)).                         *)
(***************************************************************************)
EXTENDS Integers, Sequences, FiniteSets, TLC

VARIABLES
    tz,           \* minutes the host's local time is ahead of UTC
    data,         \* the raw payload given to formatCalendarResponse
    monthFilter,  \* the monthFilter given to formatCalendarResponse
    gradeFilter,  \* the gradeFilter given to formatCalendarResponse
    result,       \* what the call produced
    pc,           \* position of the call
    args,         \* the arguments of the tool call
    pending,      \* the upstream request in flight
    cache,        \* MemoryCache.cache: the entries by key
    now,          \* Date.now(), in ms since the server started
    timeout,      \* the timer fetchAPI set with setTimeout
    controller,   \* the AbortController of fetchAPI
    res           \* the response fetch resolved to

toolVars == <<args, pending, cache, now>>
fetchVars == <<timeout, controller, res>>
vars == <<tz, data, monthFilter, gradeFilter, result, pc, args, pending, cache, now,
          timeout, controller, res>>

----------------------------------------------------------------------------
(* JavaScript values *)

Undefined == [t |-> "undefined"]
Null == [t |-> "null"]
Num(n) == [t |-> "number", v |-> n]

\* a whole number too large for one machine integer: hi * 10^9 + lo
Billion == 1000000000
BigNum(hi, lo) == [t |-> "number", hi |-> hi, v |-> lo]
IsBig(x) == "hi" \in DOMAIN x
Str(s) == [t |-> "string", v |-> s]
Bool(b) == [t |-> "boolean", v |-> b]
NaN == [t |-> "number", nan |-> TRUE]
Arr(s) == [t |-> "array", v |-> s]
EmptyObject == [t |-> "object"]

\* ToBoolean: undefined, null, false, 0 and "" are falsy
Truthy(x) ==
    CASE x.t = "undefined" -> FALSE
      [] x.t = "null" -> FALSE
      [] x.t = "boolean" -> x.v
      [] x.t = "number" -> x # NaN /\ (IsBig(x) \/ x.v # 0)
      [] x.t = "string" -> x.v # ""
      [] OTHER -> TRUE

\* a || b
OrElse(a, b) == IF Truthy(a) THEN a ELSE b

----------------------------------------------------------------------------
(* Strings *)

Char(s, i) == SubSeq(s, i, i)

Digits == {"0", "1", "2", "3", "4", "5", "6", "7", "8", "9"}

DigitChar == <<"0", "1", "2", "3", "4", "5", "6", "7", "8", "9">>

DigitVal(c) == CHOOSE n \in 0..9 : DigitChar[n + 1] = c

IsDigits(s) == \A i \in 1..Len(s) : Char(s, i) \in Digits

RECURSIVE DigitsToNat(_)
DigitsToNat(s) ==
    IF s = "" THEN 0
    ELSE 10 * DigitsToNat(SubSeq(s, 1, Len(s) - 1)) + DigitVal(Char(s, Len(s)))

\* zero-padded decimal of n in w characters
RECURSIVE Pad(_, _)
Pad(n, w) == IF w = 0 THEN "" ELSE Pad(n \div 10, w - 1) \o DigitChar[(n % 10) + 1]

WhiteSpace == {" ", "\t", "\n"}

\* String.prototype.trim
RECURSIVE TrimStart(_)
TrimStart(s) ==
    IF s # "" /\ Char(s, 1) \in WhiteSpace THEN TrimStart(Tail(s)) ELSE s

RECURSIVE TrimEnd(_)
TrimEnd(s) ==
    IF s # "" /\ Char(s, Len(s)) \in WhiteSpace THEN TrimEnd(SubSeq(s, 1, Len(s) - 1)) ELSE s

Trim(s) == TrimEnd(TrimStart(s))

\* the number of digits s starts with
RECURSIVE DigitPrefixLen(_)
DigitPrefixLen(s) ==
    IF s # "" /\ Char(s, 1) \in Digits THEN 1 + DigitPrefixLen(Tail(s)) ELSE 0

\* parseInt(s, 10): leading white space, an optional sign, then the digits up
\* to the first other character; NaN when there is no digit
parseInt(s) ==
    LET t == TrimStart(s)
        signed == t # "" /\ Char(t, 1) \in {"+", "-"}
        body == IF signed THEN Tail(t) ELSE t
        n == DigitPrefixLen(body)
        magnitude == DigitsToNat(SubSeq(body, 1, n))
    IN IF n = 0 THEN NaN
       ELSE IF signed /\ Char(t, 1) = "-" THEN Num(0 - magnitude)
       ELSE Num(magnitude)

\* the decimal digits of a natural number
RECURSIVE NatToString(_)
NatToString(n) ==
    IF n < 10 THEN DigitChar[n + 1] ELSE NatToString(n \div 10) \o DigitChar[(n % 10) + 1]

\* String(x) for a string or an integer
String(x) ==
    IF x.t = "string" THEN x.v
    ELSE IF x.v < 0 THEN "-" \o NatToString(0 - x.v)
    ELSE NatToString(x.v)

\* s.split(','): the pieces between the commas
RECURSIVE Split(_)
Split(s) ==
    LET commas == {i \in 1..Len(s) : Char(s, i) = ","}
    IN IF commas = {} THEN <<s>>
       ELSE LET i == CHOOSE c \in commas : \A d \in commas : c <= d
            IN <<SubSeq(s, 1, i - 1)>> \o Split(SubSeq(s, i + 1, Len(s)))

\* collation rank of the characters a YYYY-MM-DD string is made of
CharRank(c) == IF c = "-" THEN 0 ELSE 1 + DigitVal(c)

\* a.localeCompare(b) for strings of digits and hyphens: negative, 0, positive
RECURSIVE localeCompare(_, _)
localeCompare(a, b) ==
    IF a = "" /\ b = "" THEN 0
    ELSE IF a = "" THEN -1
    ELSE IF b = "" THEN 1
    ELSE IF CharRank(Char(a, 1)) < CharRank(Char(b, 1)) THEN -1
    ELSE IF CharRank(Char(a, 1)) > CharRank(Char(b, 1)) THEN 1
    ELSE localeCompare(Tail(a), Tail(b))

----------------------------------------------------------------------------
(* Date objects *)

SecPerDay == 86400
MsPerDay == 86400000
MsPerMinute == 60000

InvalidDate == [valid |-> FALSE]

\* a time value of day*MsPerDay + ms milliseconds, ms brought into one day
MakeTime(day, ms) ==
    [valid |-> TRUE, day |-> day + (ms \div MsPerDay), ms |-> ms % MsPerDay]

\* days since 1970-01-01 of the proleptic Gregorian date y-m-d
DaysFromCivil(y, m, d) ==
    LET yy == IF m <= 2 THEN y - 1 ELSE y
        era == yy \div 400
        yoe == yy - era * 400
        mp == IF m > 2 THEN m - 3 ELSE m + 9
        doy == ((153 * mp + 2) \div 5) + d - 1
        doe == yoe * 365 + (yoe \div 4) - (yoe \div 100) + doy
    IN era * 146097 + doe - 719468

\* the Gregorian date of a day number: YearFromTime, MonthFromTime, DateFromTime
CivilFromDays(z) ==
    LET zz == z + 719468
        era == zz \div 146097
        doe == zz - era * 146097
        yoe == (doe - (doe \div 1460) + (doe \div 36524) - (doe \div 146096)) \div 365
        doy == doe - (365 * yoe + (yoe \div 4) - (yoe \div 100))
        mp == (5 * doy + 2) \div 153
        d == doy - ((153 * mp + 2) \div 5) + 1
        m == IF mp < 10 THEN mp + 3 ELSE mp - 9
    IN [y |-> (yoe + era * 400) + (IF m <= 2 THEN 1 ELSE 0), m |-> m, d |-> d]

\* DateFromSeconds without the conversion to milliseconds: new Date(seconds)
DateFromSecondsAsMs(s) == MakeTime(s \div MsPerDay, s % MsPerDay)

\* new Date(seconds * 1000) for a whole number of seconds
DateFromSeconds(s) == MakeTime(s \div SecPerDay, (s % SecPerDay) * 1000)

\* TimeClip: a time value beyond 100,000,000 days from the epoch is invalid
MaxDay == 100000000

\* new Date(seconds * 1000) for hi * 10^9 + lo seconds, divided by the
\* seconds of a day limb by limb
DateFromBigSeconds(hi, lo) ==
    LET Carried(rest) ==
            IF hi * (Billion \div SecPerDay) + (rest \div SecPerDay) >= MaxDay THEN InvalidDate
            ELSE MakeTime(hi * (Billion \div SecPerDay) + (rest \div SecPerDay),
                          (rest % SecPerDay) * 1000)
    IN Carried(hi * (Billion % SecPerDay) + lo)

\* the offset part of a date-time string: "" is local time, "Z", "+HH:mm", "-HH:mm";
\* the result holds the minutes to subtract to reach UTC
ParseOffset(s, localTz) ==
    IF s = "" THEN [ok |-> TRUE, mins |-> localTz]
    ELSE IF s = "Z" THEN [ok |-> TRUE, mins |-> 0]
    ELSE IF Len(s) = 6 /\ Char(s, 1) \in {"+", "-"} /\ IsDigits(SubSeq(s, 2, 3))
            /\ Char(s, 4) = ":" /\ IsDigits(SubSeq(s, 5, 6))
         THEN LET mins == 60 * DigitsToNat(SubSeq(s, 2, 3)) + DigitsToNat(SubSeq(s, 5, 6))
              IN [ok |-> TRUE, mins |-> IF Char(s, 1) = "+" THEN mins ELSE 0 - mins]
    ELSE [ok |-> FALSE]

\* the part of a date-time string after "THH:mm": optional ":ss", optional ".sss",
\* then the offset; the result is the ms within the minute and the offset string
ParseSeconds(s) ==
    IF Len(s) >= 3 /\ Char(s, 1) = ":" /\ IsDigits(SubSeq(s, 2, 3))
    THEN LET sec == DigitsToNat(SubSeq(s, 2, 3))
             r == SubSeq(s, 4, Len(s))
         IN IF Len(r) >= 4 /\ Char(r, 1) = "." /\ IsDigits(SubSeq(r, 2, 4))
            THEN [ms |-> sec * 1000 + DigitsToNat(SubSeq(r, 2, 4)), rest |-> SubSeq(r, 5, Len(r))]
            ELSE [ms |-> sec * 1000, rest |-> r]
    ELSE [ms |-> 0, rest |-> s]

\* new Date(string): the ECMA-262 date-time string format.  A date-only string
\* is UTC midnight; a date-time without offset is local time.  Anything else
\* is an invalid date.
DateParse(s, localTz) ==
    IF Len(s) >= 10 /\ IsDigits(SubSeq(s, 1, 4)) /\ Char(s, 5) = "-"
       /\ IsDigits(SubSeq(s, 6, 7)) /\ Char(s, 8) = "-" /\ IsDigits(SubSeq(s, 9, 10))
    THEN LET y == DigitsToNat(SubSeq(s, 1, 4))
             m == DigitsToNat(SubSeq(s, 6, 7))
             d == DigitsToNat(SubSeq(s, 9, 10))
         IN IF m < 1 \/ m > 12 \/ d < 1 \/ d > 31 THEN InvalidDate
            ELSE IF Len(s) = 10 THEN MakeTime(DaysFromCivil(y, m, d), 0)
            ELSE IF Len(s) >= 16 /\ Char(s, 11) = "T" /\ IsDigits(SubSeq(s, 12, 13))
                    /\ Char(s, 14) = ":" /\ IsDigits(SubSeq(s, 15, 16))
                 THEN LET hh == DigitsToNat(SubSeq(s, 12, 13))
                          mi == DigitsToNat(SubSeq(s, 15, 16))
                          sp == ParseSeconds(SubSeq(s, 17, Len(s)))
                          off == ParseOffset(sp.rest, localTz)
                      IN IF ~off.ok \/ hh > 24 \/ mi > 59 \/ sp.ms > 59999 THEN InvalidDate
                         ELSE MakeTime(DaysFromCivil(y, m, d),
                                       (hh * 60 + mi - off.mins) * MsPerMinute + sp.ms)
            ELSE InvalidDate
    ELSE InvalidDate

\* date.toISOString().split('T')[0] for years 0000..9999
ISODatePart(date) ==
    LET Text(c) == Pad(c.y, 4) \o "-" \o Pad(c.m, 2) \o "-" \o Pad(c.d, 2)
    IN Text(CivilFromDays(date.day))

\* date.getMonth(): the zero-based month of the date in local time
getMonth(date, localTz) ==
    CivilFromDays(MakeTime(date.day, date.ms + localTz * MsPerMinute).day).m - 1

\* new Date(value) for the value types a JSON payload can hold
\* A boolean and null go through ToNumber; an array or object goes through
\* ToString (the elements joined for an array of at most one string,
\* "[object Object]" for a plain object) and is parsed as a string.
NewDate(dateValue, localTz) ==
    CASE dateValue.t = "number" ->
            IF dateValue = NaN THEN InvalidDate
            ELSE MakeTime(dateValue.v \div MsPerDay, dateValue.v % MsPerDay)
      [] dateValue.t = "string" -> DateParse(dateValue.v, localTz)
      [] dateValue.t = "boolean" -> MakeTime(0, IF dateValue.v THEN 1 ELSE 0)
      [] dateValue.t = "null" -> MakeTime(0, 0)
      [] dateValue.t = "array" /\ Len(dateValue.v) = 0 -> DateParse("", localTz)
      [] dateValue.t = "array" /\ Len(dateValue.v) = 1 -> DateParse(dateValue.v[1].v, localTz)
      [] dateValue.t = "object" -> DateParse("[object Object]", localTz)
      [] OTHER -> InvalidDate

----------------------------------------------------------------------------
(* rules/dates *)

\* dateValue * 1000 as a Date, or new Date(dateValue) for any other type
DateOf(dateValue, localTz) ==
    IF dateValue.t = "number"
    THEN IF dateValue = NaN THEN InvalidDate
         ELSE IF IsBig(dateValue) THEN DateFromBigSeconds(dateValue.hi, dateValue.v)
         ELSE DateFromSeconds(dateValue.v)
    ELSE NewDate(dateValue, localTz)

\* formatDate returning null only for null and undefined
formatDateNullishOnly(dateValue, localTz) ==
    IF dateValue.t \in {"null", "undefined"} THEN Null
    ELSE LET Text(date) == IF ~date.valid THEN Null ELSE Str(ISODatePart(date))
         IN Text(DateOf(dateValue, localTz))

formatDate(dateValue, localTz) ==
    IF ~Truthy(dateValue) THEN Null
    ELSE LET Text(date) == IF ~date.valid THEN Null ELSE Str(ISODatePart(date))
         IN Text(DateOf(dateValue, localTz))

\* new Date().getFullYear(): the local year at clock reading t
StartDay == DaysFromCivil(2026, 11, 2)

getFullYear(t, localTz) ==
    CivilFromDays(StartDay + ((t + localTz * MsPerMinute) \div MsPerDay)).y

Error(message) == [name |-> "Error", message |-> message]

\* validateYear: the year, or the exception thrown
\* validateYear without the lower limit
validateYearNoLowerLimit(year, t, localTz) ==
    LET trimmed == IF year.t = "string" THEN Str(Trim(year.v)) ELSE Undefined
        Checked(y) ==
            IF y = NaN \/ y.v > 9999
            THEN [ok |-> FALSE, error |-> Error("Year must be between 1970 and 9999")]
            ELSE [ok |-> TRUE, y |-> y.v]
    IN Checked(parseInt(OrElse(trimmed, Str(String(Num(getFullYear(t, localTz))))).v))

\* year?.trim() of a value that is neither a string nor nullish calls a
\* property that is no function
validateYear(year, t, localTz) ==
    LET trimmed == IF year.t = "string" THEN Str(Trim(year.v)) ELSE Undefined
        Checked(y) ==
            IF y = NaN \/ y.v < 1970 \/ y.v > 9999
            THEN [ok |-> FALSE, error |-> Error("Year must be between 1970 and 9999")]
            ELSE [ok |-> TRUE, y |-> y.v]
    IN IF year.t \notin {"string", "undefined", "null"}
       THEN [ok |-> FALSE,
             error |-> [name |-> "TypeError", message |-> "year?.trim is not a function"]]
       ELSE Checked(parseInt(OrElse(trimmed, Str(String(Num(getFullYear(t, localTz))))).v))

----------------------------------------------------------------------------
(* rules/filters *)

\* parseMonthFilter without the range test
parseMonthFilterAnyInteger(month) ==
    IF ~Truthy(month) THEN Undefined
    ELSE LET Checked(m) == IF m = NaN THEN Undefined ELSE m
         IN Checked(parseInt(month.v))

parseMonthFilter(month) ==
    IF ~Truthy(month) THEN Undefined
    ELSE LET Checked(m) == IF m = NaN \/ m.v < 1 \/ m.v > 12 THEN Undefined ELSE m
         IN Checked(parseInt(month.v))

\* ValidGrades keeping every piece that parses, whatever its value
ValidGradesAnyInteger(pieces) ==
    LET IsNumber(g) == g # NaN
        Values(kept) == [i \in 1..Len(kept) |-> kept[i].v]
    IN Values(SelectSeq([i \in 1..Len(pieces) |-> parseInt(Trim(pieces[i]))], IsNumber))

\* the pieces of the filter string that are grades, as numbers
ValidGrades(pieces) ==
    LET IsGrade(g) == g # NaN /\ g.v >= 0 /\ g.v <= 7
        Values(kept) == [i \in 1..Len(kept) |-> kept[i].v]
    IN Values(SelectSeq([i \in 1..Len(pieces) |-> parseInt(Trim(pieces[i]))], IsGrade))

parseGradeFilter(grade) ==
    IF ~Truthy(grade) THEN Undefined
    ELSE LET filterStr == IF grade.t = "number" THEN String(grade) ELSE grade.v
             Checked(grades) == IF Len(grades) > 0 THEN Arr(grades) ELSE Undefined
         IN Checked(ValidGrades(Split(filterStr)))

----------------------------------------------------------------------------
(* constants *)

API_BASE_URL == "https://litcal.johnromanodorazio.com/api/dev"

GRADE_MAP ==
    [g \in 0..7 |->
        CASE g = 0 -> "Weekday"
          [] g = 1 -> "Commemoration"
          [] g = 2 -> "Optional Memorial"
          [] g = 3 -> "Memorial"
          [] g = 4 -> "Feast"
          [] g = 5 -> "Feast of the Lord"
          [] g = 6 -> "Solemnity"
          [] g = 7 -> "Higher Solemnity"]

\* GradeLookup in a table that lacks the highest grade
GradeLookupWithoutHighest(grade) ==
    IF grade.t = "number" /\ grade.v \in DOMAIN GRADE_MAP \ {7}
    THEN Str(GRADE_MAP[grade.v])
    ELSE Undefined

\* GRADE_MAP[grade]: undefined for any key the table does not hold
GradeLookup(grade) ==
    IF grade.t = "number" /\ grade.v \in DOMAIN GRADE_MAP
    THEN Str(GRADE_MAP[grade.v])
    ELSE Undefined

----------------------------------------------------------------------------
(* formatters/calendar *)

\* an object parsed from JSON whose properties are listed in entries, in
\* property order (keys are not array indices, so this is insertion order)
Mapping(entries) == [t |-> "object", entries |-> entries]

\* data?.x
OptField(obj, f) ==
    IF obj.t \in {"undefined", "null"} THEN Undefined
    ELSE IF f \in DOMAIN obj THEN obj[f] ELSE Undefined

TypeError(prop) ==
    [name |-> "TypeError",
     message |-> "Cannot read properties of null (reading '" \o prop \o "')"]

\* LitcalData without the Object.values branch: only an array yields events
LitcalDataArrayOnly(litcal) ==
    IF litcal.t = "array" THEN [ok |-> TRUE, list |-> litcal.v]
    ELSE [ok |-> TRUE, list |-> <<>>]

\* Array.isArray(x) ? x : Object.values(x): the list, or the exception
\* Object.values throws when x is undefined or null
LitcalData(litcal) ==
    CASE litcal.t = "array" -> [ok |-> TRUE, list |-> litcal.v]
      [] litcal.t = "object" ->
            [ok |-> TRUE, list |-> [i \in 1..Len(litcal.entries) |-> litcal.entries[i].v]]
      [] litcal.t \in {"undefined", "null"} ->
            [ok |-> FALSE,
             error |-> [name |-> "TypeError",
                        message |-> "Cannot convert undefined or null to object"]]
      [] OTHER -> [ok |-> TRUE, list |-> <<>>]

\* the callback of litcalData.map: the canonical event of e, or the exception
\* that leaves the callback.  Reading a property of a null element throws; the
\* handler of that exception throws itself while it builds the log line from
\* e.event_key, before anything is written.
MapEvent(e, localTz) ==
    IF e.t \in {"null", "undefined"}
    THEN [ok |-> FALSE, error |-> TypeError("event_key")]
    ELSE [ok |-> TRUE,
          event |-> [name |-> OrElse(OptField(e, "name"), Str("Unknown")),
                     date |-> formatDate(OptField(e, "date"), localTz),
                     grade |-> OptField(e, "grade"),
                     grade_name |-> OrElse(GradeLookup(OptField(e, "grade")), Str("Unknown")),
                     color |-> OrElse(OptField(e, "color"), Arr(<<>>)),
                     common |-> OrElse(OptField(e, "common"), Arr(<<>>)),
                     liturgical_year |-> OrElse(OptField(e, "liturgical_year"), Null)]]

\* litcalData.map(...): all canonical events, or the first exception
MapEvents(list, localTz) ==
    LET Collect(results) ==
            IF \A i \in 1..Len(results) : results[i].ok
            THEN [ok |-> TRUE, events |-> [i \in 1..Len(results) |-> results[i].event]]
            ELSE results[CHOOSE i \in 1..Len(results) :
                            ~results[i].ok /\ \A j \in 1..(i - 1) : results[j].ok]
    IN Collect([i \in 1..Len(list) |-> MapEvent(list[i], localTz)])

\* MonthMatches without the null-date test: an undated event passes
MonthMatchesKeepsUndated(e, month, localTz) ==
    IF ~Truthy(e.date) THEN TRUE
    ELSE LET eventMonth == getMonth(NewDate(e.date, localTz), localTz) + 1
         IN month.t = "number" /\ eventMonth = month.v

\* the month filter's test of one canonical event
MonthMatches(e, month, localTz) ==
    IF ~Truthy(e.date) THEN FALSE
    ELSE LET eventMonth == getMonth(NewDate(e.date, localTz), localTz) + 1
         IN month.t = "number" /\ eventMonth = month.v

\* MonthFilterGiven testing only monthFilter !== null
MonthFilterGivenNotNull(month) == month.t # "null"

\* monthFilter !== null && monthFilter !== undefined
MonthFilterGiven(month) == month.t \notin {"null", "undefined"}

\* gradeFilter && gradeFilter.length > 0
GradeFilterGiven(grades) == Truthy(grades) /\ Len(grades.v) > 0

\* GradeMatches comparing with the first grade of the list only
GradeMatchesFirstOnly(e, grades) ==
    e.grade.t = "number" /\ grades.v[1] = e.grade.v

\* gradeFilter.includes(e.grade)
GradeMatches(e, grades) ==
    e.grade.t = "number" /\ \E i \in 1..Len(grades.v) : grades.v[i] = e.grade.v

\* SortCompare with the operands of localeCompare exchanged
SortCompareDescending(a, b) ==
    IF ~Truthy(a.date) /\ ~Truthy(b.date) THEN 0
    ELSE IF ~Truthy(a.date) THEN 1
    ELSE IF ~Truthy(b.date) THEN -1
    ELSE localeCompare(b.date.v, a.date.v)

\* SortCompare with the grade, higher first, as a second key
SortCompareThenGrade(a, b) ==
    IF ~Truthy(a.date) /\ ~Truthy(b.date) THEN 0
    ELSE IF ~Truthy(a.date) THEN 1
    ELSE IF ~Truthy(b.date) THEN -1
    ELSE IF localeCompare(a.date.v, b.date.v) # 0 THEN localeCompare(a.date.v, b.date.v)
    ELSE IF a.grade.t = "number" /\ b.grade.t = "number" THEN b.grade.v - a.grade.v
    ELSE 0

\* the comparator given to events.sort
SortCompare(a, b) ==
    IF ~Truthy(a.date) /\ ~Truthy(b.date) THEN 0
    ELSE IF ~Truthy(a.date) THEN 1
    ELSE IF ~Truthy(b.date) THEN -1
    ELSE localeCompare(a.date.v, b.date.v)

\* Array.prototype.sort is stable: x goes after every element that does not
\* compare greater than it
RECURSIVE InsertSorted(_, _)
InsertSorted(x, sorted) ==
    IF sorted = <<>> THEN <<x>>
    ELSE IF SortCompare(Head(sorted), x) <= 0
         THEN <<Head(sorted)>> \o InsertSorted(x, Tail(sorted))
         ELSE <<x>> \o sorted

RECURSIVE Sort(_)
Sort(list) ==
    IF list = <<>> THEN <<>>
    ELSE InsertSorted(list[Len(list)], Sort(SubSeq(list, 1, Len(list) - 1)))

\* JSON.stringify of an object: a property whose value is undefined is left out
JSONObject(obj) == [f \in {k \in DOMAIN obj : obj[k] # Undefined} |-> obj[f]]

Return(json) == [kind |-> "return", json |-> json]
Throw(error) == [kind |-> "throw", error |-> error]

\* CatchFormatting that lets the exception through
CatchFormattingRethrow(error) == Throw(error)

\* the catch clause around the body of formatCalendarResponse
CatchFormatting(error) ==
    Return([error |-> "Error formatting calendar: " \o error.message])

\* NoCalendarData testing only !data
NoCalendarDataPayloadOnly(d) == ~Truthy(d)

\* !data?.litcal
NoCalendarData(d) == ~Truthy(OptField(d, "litcal"))

formatCalendarResponse(d, month, grades, localTz) ==
    LET InMonth(e) == MonthMatches(e, month, localTz)
        InGrades(e) == GradeMatches(e, grades)
        ByMonth(events) ==
            IF MonthFilterGiven(month) THEN SelectSeq(events, InMonth) ELSE events
        ByGrade(events) ==
            IF GradeFilterGiven(grades) THEN SelectSeq(events, InGrades) ELSE events
        Response(settings, events) ==
            Return(
              [metadata |->
                 [locale |-> OrElse(OptField(settings, "locale"), Null),
                  national_calendar |-> OrElse(OptField(settings, "national_calendar"), Null),
                  diocesan_calendar |-> OrElse(OptField(settings, "diocesan_calendar"), Null),
                  year |-> OrElse(OptField(settings, "year"), Null),
                  total_events |-> Len(events),
                  filters_applied |-> [month |-> OrElse(month, Null),
                                       grades |-> OrElse(grades, Null)]],
               events |-> [i \in 1..Len(events) |-> JSONObject(events[i])]])
        Map(litcalData) ==
            IF litcalData.ok THEN MapEvents(litcalData.list, localTz) ELSE litcalData
        Body(mapped) ==
            IF ~mapped.ok THEN CatchFormatting(mapped.error)
            ELSE Response(OptField(d, "settings"),
                          Sort(ByGrade(ByMonth(mapped.events))))
    IN IF NoCalendarData(d)
       THEN Return([error |-> "No calendar data available"])
       ELSE Body(Map(LitcalData(OptField(d, "litcal"))))

----------------------------------------------------------------------------
(* Inputs of the normalizer *)

\* longest event list of a payload
MaxEvents == 3

RawEvent(name, date, grade) ==
    [t |-> "object", name |-> name, date |-> date, grade |-> grade,
     color |-> Arr(<<"white">>), common |-> Arr(<<>>),
     liturgical_year |-> Str("A"), event_key |-> name]

\* an event with nothing but a date that does not parse and an unknown grade
BareEvent == [t |-> "object", date |-> Str("not-a-date"), grade |-> Num(9)]

RawEvents ==
    { RawEvent(Str("Jan5"), Num(1767571200), Num(2)),                  \* 2026-01-05T00:00:00Z
      RawEvent(Str("Jan5b"), Str("2026-01-05"), Num(5)),
      RawEvent(Str("Feb1"), Str("2026-02-01T00:00:00+00:00"), Num(3)),
      RawEvent(Str("NoDate"), Null, Num(2)),
      BareEvent,
      Null }

SeqsUpTo(S, n) == UNION {[1..k -> S] : k \in 0..n}

Settings == [t |-> "object", locale |-> Str("en"), year |-> Num(2026)]

\* the keyed form of an event list
AsMapping(list) ==
    Mapping([i \in 1..Len(list) |-> [k |-> "event" \o Pad(i, 1), v |-> list[i]]])

Payloads ==
    {Undefined, [t |-> "object", settings |-> Settings]}
    \cup {[t |-> "object", litcal |-> Arr(l), settings |-> Settings] : l \in SeqsUpTo(RawEvents, MaxEvents)}
    \cup {[t |-> "object", litcal |-> AsMapping(l)] : l \in SeqsUpTo(RawEvents, MaxEvents)}

MonthFilters == {Undefined, Null, Num(1), Num(2), Num(12)}

GradeFilters == {Undefined, Null, Arr(<<>>), Arr(<<2>>), Arr(<<3, 5>>)}

\* local time five hours behind UTC, UTC, nine hours ahead
TimeZones == {-300, 0, 540}

NoResult == [kind |-> "none"]

NoArgs == [tool |-> "none"]

NoRequest == [url |-> ""]

\* no call of fetchAPI is running
NoTimeout == [state |-> "none"]

NoController == [aborted |-> FALSE]

NoFetch ==
    /\ timeout = NoTimeout
    /\ controller = NoController
    /\ res = Undefined

----------------------------------------------------------------------------
(* One call of formatCalendarResponse on arbitrary arguments *)

InitFormat ==
    /\ tz \in TimeZones
    /\ data \in Payloads
    /\ monthFilter \in MonthFilters
    /\ gradeFilter \in GradeFilters
    /\ result = NoResult
    /\ pc = "call"
    /\ args = NoArgs
    /\ pending = NoRequest
    /\ cache = {}
    /\ now = 0
    /\ NoFetch

\* PayloadAfter with the canonical events written back into the array the
\* payload holds
PayloadAfterMappedInPlace(d, month, grades, localTz) ==
    IF ~NoCalendarData(d) /\ d.litcal.t = "array" /\ MapEvents(d.litcal.v, localTz).ok
    THEN [d EXCEPT !.litcal = Arr(MapEvents(d.litcal.v, localTz).events)]
    ELSE d

\* the payload as the call leaves it: litcalData may be the payload's own
\* array, but map and filter return new arrays and sort reorders the array
\* that map returned, so no statement writes to the payload
PayloadAfter(d, month, grades, localTz) == d

FormatCalendarResponse ==
    /\ pc = "call"
    /\ result' = formatCalendarResponse(data, monthFilter, gradeFilter, tz)
    /\ data' = PayloadAfter(data, monthFilter, gradeFilter, tz)
    /\ pc' = "done"
    /\ UNCHANGED <<tz, monthFilter, gradeFilter>>
    /\ UNCHANGED toolVars
    /\ UNCHANGED fetchVars

NextFormat == FormatCalendarResponse

SpecFormat == InitFormat /\ [][NextFormat]_vars

----------------------------------------------------------------------------
(* cache/memory *)

\* this.ttl of the singleton: 60 minutes in ms
ttl == 60 * 60 * 1000

\* parts.filter(p => p !== undefined).join(':') for type, year and locale
calendarKey(type, year, locale) == type \o ":" \o String(Num(year)) \o ":" \o locale

HasEntry(c, key) == \E entry \in c : entry.key = key

EntryOf(c, key) == CHOOSE entry \in c : entry.key = key

\* CacheGet that already expires an entry whose age is the TTL
CacheGetExpiresAtTtl(c, key, t) ==
    IF ~HasEntry(c, key) THEN [value |-> Undefined, cache |-> c]
    ELSE IF t - EntryOf(c, key).timestamp >= ttl
         THEN [value |-> Undefined, cache |-> c \ {EntryOf(c, key)}]
         ELSE [value |-> EntryOf(c, key).data, cache |-> c]

\* MemoryCache.get: the value returned and the cache it leaves; an expired
\* entry is deleted
CacheGet(c, key, t) ==
    IF ~HasEntry(c, key) THEN [value |-> Undefined, cache |-> c]
    ELSE IF t - EntryOf(c, key).timestamp > ttl
         THEN [value |-> Undefined, cache |-> c \ {EntryOf(c, key)}]
         ELSE [value |-> EntryOf(c, key).data, cache |-> c]

\* CacheSet that keeps the entry a key already has
CacheSetKeepsFirst(c, key, value, t) ==
    IF HasEntry(c, key) THEN c
    ELSE c \cup {[key |-> key, data |-> value, timestamp |-> t]}

\* MemoryCache.set
CacheSet(c, key, value, t) ==
    {entry \in c : entry.key # key} \cup {[key |-> key, data |-> value, timestamp |-> t]}

----------------------------------------------------------------------------
(* The get_general_calendar tool: one call at a time *)

\* clock readings the model advances through, in steps of half the TTL
MaxTicks == 3

TickMs == ttl \div 2

Years == {Undefined, Str("2026"), Str(" 2027 "), Str("1969")}

Months == {Undefined, Str("2"), Str("13"), Num(1)}

Grades == {Undefined, Str("abc,def"), Str("99"), Str("3"), Num(5)}

ToolArgs ==
    {[tool |-> "get_general_calendar", year |-> y, locale |-> "en", month |-> m, grade |-> g] :
        y \in Years, m \in Months, g \in Grades}

\* what the upstream API may answer
UpstreamPayloads ==
    { [t |-> "object", settings |-> Settings,
       litcal |-> Arr(<< RawEvent(Str("Feb1"), Str("2026-02-01T00:00:00+00:00"), Num(3)),
                         RawEvent(Str("Jan5"), Num(1767571200), Num(2)),
                         RawEvent(Str("NoDate"), Null, Num(2)),
                         RawEvent(Str("Jan5b"), Str("2026-01-05"), Num(5)) >>)],
      [t |-> "object", settings |-> Settings,
       litcal |-> AsMapping(<< RawEvent(Str("Feb1"), Str("2026-02-01T00:00:00+00:00"), Num(3)) >>)],
      [t |-> "object", settings |-> Settings] }

UpstreamErrors ==
    { Error("API Error: 500 - Internal Server Error"),
      [name |-> "AbortError", message |-> "This operation was aborted"] }

\* handleError
handleError(e) == Return([error |-> e.message])

InitTool ==
    /\ tz \in TimeZones
    /\ data = Undefined
    /\ monthFilter = Undefined
    /\ gradeFilter = Undefined
    /\ result = NoResult
    /\ pc = "idle"
    /\ args = NoArgs
    /\ pending = NoRequest
    /\ cache = {}
    /\ now = 0
    /\ NoFetch

\* the part of the handler after await cache.getOrFetch(...) has given d
FormatWith(d) ==
    /\ data' = d
    /\ monthFilter' = parseMonthFilter(IF Truthy(args'.month) THEN Str(String(args'.month)) ELSE Undefined)
    /\ gradeFilter' = parseGradeFilter(IF Truthy(args'.grade) THEN Str(String(args'.grade)) ELSE Undefined)
    /\ result' = formatCalendarResponse(data', monthFilter', gradeFilter', tz)
    /\ pc' = "done"

\* getGeneralCalendar up to the upstream request: the year is validated, the
\* cache is read, and on a miss fetchGeneralCalendar issues the request
GetGeneralCalendar(a) ==
    /\ pc = "idle"
    /\ args' = a
    /\ LET year == validateYear(a.year, now, tz)
       IN IF ~year.ok
          THEN /\ result' = handleError(year.error)
               /\ pc' = "done"
               /\ UNCHANGED <<data, monthFilter, gradeFilter, pending, cache>>
          ELSE LET cacheKey == calendarKey("general", year.y, a.locale)
                   cached == CacheGet(cache, cacheKey, now)
               IN /\ cache' = cached.cache
                  /\ IF cached.value # Undefined
                     THEN /\ FormatWith(cached.value)
                          /\ UNCHANGED pending
                     ELSE /\ pending' = [url |-> API_BASE_URL \o "/calendar/" \o String(Num(year.y)),
                                         locale |-> a.locale, key |-> cacheKey]
                          /\ pc' = "fetching"
                          /\ UNCHANGED <<data, monthFilter, gradeFilter, result>>
    /\ UNCHANGED <<tz, now>>
    /\ UNCHANGED fetchVars

\* the upstream request completes: getOrFetch stores the payload and the
\* handler formats it
FetchResolve(payload) ==
    /\ pc = "fetching"
    /\ cache' = CacheSet(cache, pending.key, payload, now)
    /\ pending' = NoRequest
    /\ UNCHANGED args
    /\ FormatWith(payload)
    /\ UNCHANGED <<tz, now>>
    /\ UNCHANGED fetchVars

\* FetchReject that stores the error payload under the key of the request
FetchRejectCachesError(e) ==
    /\ pc = "fetching"
    /\ result' = handleError(e)
    /\ cache' = CacheSet(cache, pending.key, [t |-> "object", error |-> Str(e.message)], now)
    /\ pc' = "done"
    /\ pending' = NoRequest
    /\ UNCHANGED <<tz, data, monthFilter, gradeFilter, args, now>>
    /\ UNCHANGED fetchVars

\* the upstream request fails (bad status or abort): the handler's catch
\* makes the error payload
FetchReject(e) ==
    /\ pc = "fetching"
    /\ result' = handleError(e)
    /\ pc' = "done"
    /\ pending' = NoRequest
    /\ UNCHANGED <<tz, data, monthFilter, gradeFilter, args, cache, now>>
    /\ UNCHANGED fetchVars

\* the text is sent to the client and the server waits for the next call
Reply ==
    /\ pc = "done"
    /\ pc' = "idle"
    /\ result' = NoResult
    /\ args' = NoArgs
    /\ data' = Undefined
    /\ monthFilter' = Undefined
    /\ gradeFilter' = Undefined
    /\ UNCHANGED <<tz, pending, cache, now>>
    /\ UNCHANGED fetchVars

Tick ==
    /\ now < MaxTicks * TickMs
    /\ now' = now + TickMs
    /\ UNCHANGED <<tz, data, monthFilter, gradeFilter, result, pc, args, pending, cache>>
    /\ UNCHANGED fetchVars

NextTool ==
    \/ \E a \in ToolArgs : GetGeneralCalendar(a)
    \/ \E payload \in UpstreamPayloads : FetchResolve(payload)
    \/ \E e \in UpstreamErrors : FetchReject(e)
    \/ Reply
    \/ Tick

SpecTool == InitTool /\ [][NextTool]_vars

----------------------------------------------------------------------------
(* The server: the CallToolRequestSchema handler and the five tool handlers,
   one call at a time *)

LowerCase == "abcdefghijklmnopqrstuvwxyz"
UpperCase == "ABCDEFGHIJKLMNOPQRSTUVWXYZ"

\* String.prototype.toUpperCase for ASCII text
RECURSIVE toUpperCase(_)
toUpperCase(s) ==
    IF s = "" THEN ""
    ELSE (IF \E k \in 1..26 : Char(LowerCase, k) = Char(s, 1)
          THEN Char(UpperCase, CHOOSE k \in 1..26 : Char(LowerCase, k) = Char(s, 1))
          ELSE Char(s, 1)) \o toUpperCase(Tail(s))

\* x?.trim() of a string or undefined
OptTrim(x) == IF x.t = "string" THEN Str(Trim(x.v)) ELSE Undefined

\* cache.calendarKey with the nation or diocese part
calendarKeyFor(type, year, locale, code) == calendarKey(type, year, locale) \o ":" \o code

\* `events:${calendarType}:${nation || 'none'}:${diocese || 'none'}`
eventsKey(calendarType, nation, diocese) ==
    "events:" \o calendarType \o ":" \o OrElse(nation, Str("none")).v
              \o ":" \o OrElse(diocese, Str("none")).v

\* the URL fetchLiturgicalEvents asks for
eventsUrl(calendarType, nation, diocese) ==
    IF calendarType = "national" /\ Truthy(nation)
    THEN API_BASE_URL \o "/events/nation/" \o nation.v
    ELSE IF calendarType = "diocesan" /\ Truthy(diocese)
    THEN API_BASE_URL \o "/events/diocese/" \o diocese.v
    ELSE API_BASE_URL \o "/events"

Request(url, locale, key) == [url |-> url, locale |-> locale, key |-> key]

\* cache.getOrFetch up to its await: the payload on a hit, the request that
\* fetchFn issues on a miss, and the cache as get leaves it
getOrFetch(c, request, t) ==
    LET Got(cached) ==
            IF cached.value # Undefined
            THEN [kind |-> "hit", value |-> cached.value, cache |-> cached.cache]
            ELSE [kind |-> "fetch", request |-> request, cache |-> cached.cache]
    IN Got(CacheGet(c, request.key, t))

\* a handler that returns before it reaches the cache
Returned(c, json) == [kind |-> "return", json |-> json, cache |-> c]

\* CalendarFetch that reads the cache under the year as given before it
\* validates the year
CalendarFetchUnvalidated(type, path, code, a, c, t, localTz) ==
    LET Fetched(year) ==
            getOrFetch(c,
                       Request(API_BASE_URL \o "/calendar/" \o path \o String(year),
                               a.locale,
                               type \o ":" \o String(year) \o ":" \o a.locale),
                       t)
    IN Fetched(OrElse(OptTrim(a.year), Str(String(Num(getFullYear(t, localTz))))))

\* the try block shared by the three calendar handlers, up to the await:
\* code is the nation or diocese part of the key, "" for the general calendar
CalendarFetch(type, path, code, a, c, t, localTz) ==
    LET Validated(year) ==
            IF ~year.ok THEN Returned(c, handleError(year.error).json)
            ELSE getOrFetch(c,
                            Request(API_BASE_URL \o "/calendar/" \o path \o String(Num(year.y)),
                                    a.locale,
                                    IF code = "" THEN calendarKey(type, year.y, a.locale)
                                    ELSE calendarKeyFor(type, year.y, a.locale, code)),
                            t)
    IN Validated(validateYear(a.year, t, localTz))

getGeneralCalendarStart(a, c, t, localTz) ==
    CalendarFetch("general", "", "", a, c, t, localTz)

\* getNationalCalendarStart that validates the year before it looks at the
\* nation
getNationalCalendarStartYearFirst(a, c, t, localTz) ==
    IF ~validateYear(a.year, t, localTz).ok
    THEN Returned(c, handleError(validateYear(a.year, t, localTz).error).json)
    ELSE IF ~Truthy(OptTrim(a.nation))
    THEN Returned(c, [error |-> "Nation code is required (e.g., IT, US, NL, VA, CA)"])
    ELSE LET Fetch(n) == CalendarFetch("national", "nation/" \o n \o "/", n, a, c, t, localTz)
         IN Fetch(toUpperCase(Trim(a.nation.v)))

getNationalCalendarStart(a, c, t, localTz) ==
    IF ~Truthy(OptTrim(a.nation))
    THEN Returned(c, [error |-> "Nation code is required (e.g., IT, US, NL, VA, CA)"])
    ELSE LET Fetch(n) == CalendarFetch("national", "nation/" \o n \o "/", n, a, c, t, localTz)
         IN Fetch(toUpperCase(Trim(a.nation.v)))

getDiocesanCalendarStart(a, c, t, localTz) ==
    IF ~Truthy(OptTrim(a.diocese))
    THEN Returned(c, [error |-> "Diocese code is required (e.g., ROME-IT, BOSTON-US)"])
    ELSE LET Fetch(d) == CalendarFetch("diocesan", "diocese/" \o d \o "/", d, a, c, t, localTz)
         IN Fetch(Trim(a.diocese.v))

listAvailableCalendarsStart(a, c, t, localTz) ==
    getOrFetch(c, Request(API_BASE_URL \o "/calendars", "en", "calendars:list"), t)

\* calendarType = "general" when the argument is undefined
CalendarTypeOf(a) == IF a.calendarType = Undefined THEN "general" ELSE a.calendarType.v

getLiturgicalEventsStart(a, c, t, localTz) ==
    getOrFetch(c,
               Request(eventsUrl(CalendarTypeOf(a), a.nation, a.diocese), "en",
                       eventsKey(CalendarTypeOf(a), a.nation, a.diocese)),
               t)

\* the rest of a calendar handler once getOrFetch has given d
CalendarFinish(a, d, localTz) ==
    formatCalendarResponse(d,
        parseMonthFilter(IF Truthy(a.month) THEN Str(String(a.month)) ELSE Undefined),
        parseGradeFilter(IF Truthy(a.grade) THEN Str(String(a.grade)) ELSE Undefined),
        localTz)

\* national_calendars = [] and diocesan_calendars = [] of the destructuring
MetadataList(metadata, f) == IF OptField(metadata, f) = Undefined THEN Arr(<<>>) ELSE OptField(metadata, f)

\* calendars.map(c => ({...})): the listed properties of each calendar, or
\* the exception of reading a property of null
MapCalendars(list, fields) ==
    IF list.t # "array"
    THEN [ok |-> FALSE,
          error |-> [name |-> "TypeError", message |-> "Cannot read properties of null (reading 'map')"]]
    ELSE IF \E i \in 1..Len(list.v) : list.v[i] = Null
    THEN [ok |-> FALSE, error |-> TypeError("calendar_id")]
    ELSE [ok |-> TRUE,
          list |-> [i \in 1..Len(list.v) |->
                      JSONObject([f \in fields |-> OptField(list.v[i], f)])]]

\* the rest of listAvailableCalendars once getOrFetch has given d
ListFinish(a, d, localTz) ==
    IF ~Truthy(OptField(d, "litcal_metadata"))
    THEN Return([error |-> "No calendar metadata available"])
    ELSE LET Response(national, diocesan) ==
                 IF ~national.ok THEN handleError(national.error)
                 ELSE IF ~diocesan.ok THEN handleError(diocesan.error)
                 ELSE Return([national_calendars |-> national.list,
                              diocesan_calendars |-> diocesan.list,
                              total |-> Len(national.list) + Len(diocesan.list)])
         IN Response(MapCalendars(MetadataList(d.litcal_metadata, "national_calendars"),
                                  {"calendar_id", "locales"}),
                     MapCalendars(MetadataList(d.litcal_metadata, "diocesan_calendars"),
                                  {"calendar_id", "diocese", "nation", "locales"}))

\* val?.grade ?? null
OrNullish(x) == IF x.t \in {"undefined", "null"} THEN Null ELSE x

\* one record of getLiturgicalEvents from an entry [k, v] of litcal_events
EventRecord(entry) ==
    [event_key |-> Str(entry.k),
     name |-> OrElse(OptField(entry.v, "name"), Null),
     grade |-> OrNullish(OptField(entry.v, "grade")),
     grade_name |-> IF OptField(entry.v, "grade") # Undefined
                    THEN GradeLookup(OptField(entry.v, "grade"))
                    ELSE Null,
     color |-> OrElse(OptField(entry.v, "color"), Null),
     common |-> OrElse(OptField(entry.v, "common"), Null),
     date |-> OrElse(OptField(entry.v, "date"), Null),
     liturgical_year |-> OrElse(OptField(entry.v, "liturgical_year"), Null)]

\* FilterEvents without the filter: every record is kept
FilterEventsKeepsAll(grades, events) == events

\* if (grades && grades.length > 0) events = events.filter(...)
FilterEvents(grades, events) ==
    IF GradeFilterGiven(grades)
    THEN SelectSeq(events, LAMBDA e : e.grade # Null /\ GradeMatches(e, grades))
    ELSE events

\* the rest of getLiturgicalEvents once getOrFetch has given d
EventsFinish(a, d, localTz) ==
    IF ~Truthy(OptField(d, "litcal_events"))
    THEN Return([error |-> "No events data available"])
    ELSE LET Response(grades, events) ==
                 Return([calendar_type |-> CalendarTypeOf(a),
                         nation |-> OrElse(a.nation, Null),
                         diocese |-> OrElse(a.diocese, Null),
                         filters_applied |-> [grades |-> OrElse(grades, Null)],
                         total_events |-> Len(events),
                         events |-> [i \in 1..Len(events) |-> JSONObject(events[i])]])
             Filtered(grades, events) ==
                 Response(grades, FilterEvents(grades, events))
         IN Filtered(parseGradeFilter(a.grade),
                     [i \in 1..Len(d.litcal_events.entries) |->
                         EventRecord(d.litcal_events.entries[i])])

KnownTools ==
    {"get_general_calendar", "get_national_calendar", "get_diocesan_calendar",
     "list_available_calendars", "get_liturgical_events"}

\* names every object inherits: handlers[name] finds these on Object.prototype
InheritedNames == {"toString", "constructor", "__proto__"}

\* handlers[name] is truthy
HasHandler(name) == name \in KnownTools \cup InheritedNames

\* handlers[name]() up to its first await
HandlerStart(a, c, t, localTz) ==
    CASE a.tool = "get_general_calendar" -> getGeneralCalendarStart(a, c, t, localTz)
      [] a.tool = "get_national_calendar" -> getNationalCalendarStart(a, c, t, localTz)
      [] a.tool = "get_diocesan_calendar" -> getDiocesanCalendarStart(a, c, t, localTz)
      [] a.tool = "list_available_calendars" -> listAvailableCalendarsStart(a, c, t, localTz)
      [] a.tool = "get_liturgical_events" -> getLiturgicalEventsStart(a, c, t, localTz)
      [] a.tool = "toString" -> [kind |-> "value", text |-> "[object Object]", cache |-> c]
      [] a.tool = "constructor" -> [kind |-> "value", text |-> EmptyObject, cache |-> c]
      [] a.tool = "__proto__" ->
            [kind |-> "throw", cache |-> c,
             error |-> [name |-> "TypeError", message |-> "handlers[name] is not a function"]]

\* the handler from the payload of getOrFetch to its return
HandlerFinish(a, d, localTz) ==
    CASE a.tool = "list_available_calendars" -> ListFinish(a, d, localTz)
      [] a.tool = "get_liturgical_events" -> EventsFinish(a, d, localTz)
      [] OTHER -> CalendarFinish(a, d, localTz)

\* the object the request handler resolves to
ToolResponse(text, isError) ==
    [kind |-> "response", content |-> <<[type |-> "text", text |-> text]>>, isError |-> isError]

ServerCalls ==
    LET Call(tool, year, month, grade, nation, diocese, calendarType) ==
            [tool |-> tool, year |-> year, locale |-> "en", month |-> month, grade |-> grade,
             nation |-> nation, diocese |-> diocese, calendarType |-> calendarType]
    IN {Call("get_general_calendar", y, m, g, Undefined, Undefined, Undefined) :
            y \in {Undefined, Str("1969"), Str("abc")}, m \in {Undefined, Str("2")},
            g \in {Undefined, Str("3")}}
       \cup {Call("get_national_calendar", y, Undefined, Undefined, n, Undefined, Undefined) :
            y \in {Undefined, Str("1969"), Str("abc")}, n \in {Undefined, Str(" "), Str("us")}}
       \cup {Call("get_diocesan_calendar", y, Undefined, Undefined, Undefined, d, Undefined) :
            y \in {Undefined, Str("1969"), Str("abc")},
            d \in {Undefined, Str(" "), Str(" ROME-IT ")}}
       \cup {Call("list_available_calendars", Undefined, Undefined, Undefined,
                  Undefined, Undefined, Undefined)}
       \cup {Call("get_liturgical_events", Undefined, Undefined, g, Undefined, Undefined, Undefined) :
            g \in {Undefined, Str("3,x")}}
       \cup {Call("get_liturgical_events", Undefined, Undefined, g, Str("us"), Undefined,
                  Str("national")) : g \in {Undefined, Str("3,x")}}
       \cup {Call(name, Undefined, Undefined, Undefined, Undefined, Undefined, Undefined) :
            name \in {"no_such_tool"} \cup InheritedNames}

\* what the upstream API may answer to the request of each tool
EventsPayload ==
    [t |-> "object",
     litcal_events |->
        Mapping(<< [k |-> "Easter", v |-> [t |-> "object", name |-> Str("Easter Sunday"),
                                           grade |-> Num(7)]],
                   [k |-> "StMartha", v |-> [t |-> "object", name |-> Str("Saint Martha"),
                                             grade |-> Num(3), color |-> Arr(<<"white">>)]],
                   [k |-> "Bare", v |-> [t |-> "object", grade |-> Null]] >>)]

MetadataPayload ==
    [t |-> "object",
     litcal_metadata |->
        [t |-> "object",
         national_calendars |->
            Arr(<< [t |-> "object", calendar_id |-> Str("US"), locales |-> Arr(<<"en_US">>)] >>),
         diocesan_calendars |->
            Arr(<< [t |-> "object", calendar_id |-> Str("boston_us"), diocese |-> Str("Boston"),
                    nation |-> Str("US"), locales |-> Arr(<<"en_US">>)] >>)]]

CalendarPayload ==
    [t |-> "object", settings |-> Settings,
     litcal |-> AsMapping(<< RawEvent(Str("Feb1"), Str("2026-02-01T00:00:00+00:00"), Num(3)),
                             RawEvent(Str("Jan5"), Num(1767571200), Num(2)) >>)]

ResponsesTo(tool) ==
    CASE tool = "list_available_calendars" ->
            {MetadataPayload,
             [t |-> "object", litcal_metadata |-> [t |-> "object", national_calendars |-> Null]]}
      [] tool = "get_liturgical_events" -> {EventsPayload, EmptyObject}
      [] OTHER -> {CalendarPayload, [t |-> "object", settings |-> Settings]}

InitServer == InitTool

\* the request handler from the arrival of the call to the handler's first
\* await, or to its response when the handler never awaits the upstream
CallTool(a) ==
    /\ pc = "idle"
    /\ args' = a
    /\ IF ~HasHandler(a.tool)
       THEN /\ result' = ToolResponse([error |-> "Unknown tool: " \o a.tool], TRUE)
            /\ pc' = "done"
            /\ UNCHANGED <<data, monthFilter, gradeFilter, pending, cache>>
       ELSE LET Started(h) ==
                    /\ cache' = h.cache
                    /\ CASE h.kind = "fetch" ->
                              /\ pending' = h.request
                              /\ pc' = "fetching"
                              /\ UNCHANGED <<data, result>>
                         [] h.kind = "hit" ->
                              /\ data' = h.value
                              /\ result' = ToolResponse(HandlerFinish(a, h.value, tz).json, FALSE)
                              /\ pc' = "done"
                              /\ UNCHANGED pending
                         [] h.kind = "return" ->
                              /\ result' = ToolResponse(h.json, FALSE)
                              /\ pc' = "done"
                              /\ UNCHANGED <<data, pending>>
                         [] h.kind = "value" ->
                              /\ result' = ToolResponse(h.text, FALSE)
                              /\ pc' = "done"
                              /\ UNCHANGED <<data, pending>>
                         [] h.kind = "throw" ->
                              /\ result' = ToolResponse(
                                              [error |-> "Error executing " \o a.tool \o ": "
                                                           \o h.error.message], TRUE)
                              /\ pc' = "done"
                              /\ UNCHANGED <<data, pending>>
                    /\ UNCHANGED <<monthFilter, gradeFilter>>
            IN Started(HandlerStart(a, cache, now, tz))
    /\ UNCHANGED <<tz, now>>
    /\ UNCHANGED fetchVars

\* the upstream answers: getOrFetch stores the payload, the handler turns it
\* into its text and the request handler wraps the text
UpstreamResolve(payload) ==
    /\ pc = "fetching"
    /\ payload \in ResponsesTo(args.tool)
    /\ cache' = CacheSet(cache, pending.key, payload, now)
    /\ pending' = NoRequest
    /\ data' = payload
    /\ result' = ToolResponse(HandlerFinish(args, payload, tz).json, FALSE)
    /\ pc' = "done"
    /\ UNCHANGED <<tz, monthFilter, gradeFilter, args, now>>
    /\ UNCHANGED fetchVars

\* the upstream fails or the request is aborted: the handler's catch makes
\* the error text
UpstreamReject(e) ==
    /\ pc = "fetching"
    /\ pending' = NoRequest
    /\ result' = ToolResponse(handleError(e).json, FALSE)
    /\ pc' = "done"
    /\ UNCHANGED <<tz, data, monthFilter, gradeFilter, args, cache, now>>
    /\ UNCHANGED fetchVars

\* the response is written to the transport
SendResponse ==
    /\ pc = "done"
    /\ pc' = "idle"
    /\ result' = NoResult
    /\ args' = NoArgs
    /\ data' = Undefined
    /\ UNCHANGED <<tz, monthFilter, gradeFilter, pending, cache, now>>
    /\ UNCHANGED fetchVars

NextServer ==
    \/ \E a \in ServerCalls : CallTool(a)
    \/ \E payload \in UNION {ResponsesTo(tool) : tool \in KnownTools} : UpstreamResolve(payload)
    \/ \E e \in UpstreamErrors : UpstreamReject(e)
    \/ SendResponse

SpecServer == InitServer /\ [][NextServer]_vars

----------------------------------------------------------------------------
(* One call of a rule: formatDate, parseMonthFilter, parseGradeFilter or
   validateYear on an argument of the kinds its callers and tests give it *)

\* epoch seconds: the first and last second of the range, both sides of
\* leap days and of year ends, the last 32-bit second and the one after
EpochSeconds ==
    { Num(1), Num(86399), Num(86400), Num(5097600), Num(5183999), Num(5184000),
      Num(31535999), Num(31536000), Num(68169600), Num(68255999), Num(68256000),
      Num(951782400), Num(951868799), Num(951868800), Num(978307199), Num(978307200),
      Num(1709164800), Num(1709251199), Num(1709251200), Num(1735689600),
      Num(1767571200), Num(2147483647),
      BigNum(2, 147483648), BigNum(4, 107456000), BigNum(4, 107542399), BigNum(4, 107542400),
      BigNum(32, 503679999), BigNum(32, 503680000),
      BigNum(253, 402214399), BigNum(253, 402214400), BigNum(253, 402300799) }

DateStrings ==
    { Str("2026-01-01T00:00:00+00:00"), Str("2026-12-31T23:59:59Z"), Str("2026-01-01"),
      Str("2026-01-01T12:30:45"), Str("2026-01-01T00:00:00.000Z"),
      Str("2024-03-10T02:00:00-05:00"), Str("2025-12-31T16:00:00-08:00"),
      Str("2026-01-01T00:30"), Str("2026-12-31T23:30:00") }

\* values that are no date
NotDates ==
    { Str("not-a-date"), Str("2026-13-01"), Str("2026-01-32"), Str(" "),
      EmptyObject, Arr(<<>>), Arr(<<Str("not-a-date")>>), Arr(<<Str("2026-01-05")>>),
      Bool(TRUE), NaN }

Falsy == {Undefined, Null, Bool(FALSE), Num(0), Str("")}

DateValues == EpochSeconds \cup DateStrings \cup NotDates \cup Falsy \cup {Num(-1), Num(-86400)}

MonthInputs ==
    { Undefined, Str(""), Str("1"), Str("5"), Str("12"), Str(" 5 "), Str("\t7"), Str("13"),
      Str("0"), Str("abc"), Str("5.7"), Str("12abc"), Str("-3"), Str("+7"), Str("1e1"),
      Str("007"), Str(" "), Str("0x5"), Str("1 2"), Str("99"), Str("a5"), Str("12.9") }

GradeInputs ==
    { Undefined, Str(""), Num(0), Num(5), Num(7), Num(8), Num(-3),
      Str("0"), Str("3"), Str("2,3"), Str(" 2 , 3 "), Str("2,,3"), Str("2,2"), Str("7,0,7"),
      Str("abc,def"), Str("99"), Str("8,3"), Str("3abc"), Str("-1,1"), Str(","), Str(" "),
      Str("1.9,x,6"), Str("3,") }

YearInputs ==
    { Undefined, Str(""), Str("  "), Str("2026"), Str(" 2027 "), Str("1970"), Str("9999"),
      Str("1969"), Str("10000"), Str("abc"), Str("2026abc"), Str("-2026"), Str("+2026"),
      Str("2026.9"), Str("0"), Str("20 26"), Str("y2026") }

RuleCalls ==
    {[fn |-> "formatDate", x |-> v] : v \in DateValues}
    \cup {[fn |-> "parseMonthFilter", x |-> v] : v \in MonthInputs}
    \cup {[fn |-> "parseGradeFilter", x |-> v] : v \in GradeInputs}
    \cup {[fn |-> "validateYear", x |-> v] : v \in YearInputs}

InitRules ==
    /\ tz \in TimeZones
    /\ args \in RuleCalls
    /\ result = NoResult
    /\ pc = "call"
    /\ data = Undefined
    /\ monthFilter = Undefined
    /\ gradeFilter = Undefined
    /\ pending = NoRequest
    /\ cache = {}
    /\ now = 0
    /\ NoFetch

RuleReturns(value) ==
    /\ result' = value
    /\ pc' = "done"
    /\ UNCHANGED <<tz, data, monthFilter, gradeFilter, args, pending, cache, now>>
    /\ UNCHANGED fetchVars

FormatDate ==
    /\ pc = "call" /\ args.fn = "formatDate"
    /\ RuleReturns(Return(formatDate(args.x, tz)))

ParseMonthFilter ==
    /\ pc = "call" /\ args.fn = "parseMonthFilter"
    /\ RuleReturns(Return(parseMonthFilter(args.x)))

ParseGradeFilter ==
    /\ pc = "call" /\ args.fn = "parseGradeFilter"
    /\ RuleReturns(Return(parseGradeFilter(args.x)))

ValidateYear ==
    /\ pc = "call" /\ args.fn = "validateYear"
    /\ LET Outcome(year) == IF year.ok THEN Return(Num(year.y)) ELSE Throw(year.error)
       IN RuleReturns(Outcome(validateYear(args.x, now, tz)))

NextRules ==
    \/ FormatDate
    \/ ParseMonthFilter
    \/ ParseGradeFilter
    \/ ValidateYear

SpecRules == InitRules /\ [][NextRules]_vars

----------------------------------------------------------------------------
(* Properties of formatCalendarResponse, checked under SpecFormat *)

Done == pc = "done"

IsErrorResult(r) == r.kind = "return" /\ DOMAIN r.json = {"error"}

IsResponse(r) == r.kind = "return" /\ DOMAIN r.json = {"metadata", "events"}

HasLitcal(d) == d.t = "object" /\ "litcal" \in DOMAIN d

\* the raw events of a payload that has a litcal, in the order they are listed
RawEventList(d) ==
    IF d.litcal.t = "array" THEN d.litcal.v
    ELSE [i \in 1..Len(d.litcal.entries) |-> d.litcal.entries[i].v]

AllMappable(d) == \A i \in 1..Len(RawEventList(d)) : RawEventList(d)[i] # Null

\* the canonical events of the payload as they are serialized, before filtering
CanonicalList(d) ==
    [i \in 1..Len(RawEventList(d)) |-> JSONObject(MapEvent(RawEventList(d)[i], tz).event)]

Count(list, x) == Cardinality({i \in 1..Len(list) : list[i] = x})

Absent(filter) == filter.t \in {"undefined", "null"}

\* the month written in a YYYY-MM-DD string
StringMonth(s) == DigitsToNat(SubSeq(s, 6, 7))

\* YYYY-MM-DD strings compare as the numbers YYYYMMDD do
DateNumber(s) ==
    DigitsToNat(SubSeq(s, 1, 4)) * 10000 + StringMonth(s) * 100 + DigitsToNat(SubSeq(s, 9, 10))

InGradeList(e, grades) ==
    "grade" \in DOMAIN e /\ e.grade.t = "number"
    /\ e.grade.v \in {grades.v[i] : i \in 1..Len(grades.v)}

\* C1: a finished call has returned a JSON text that is either a response
\* object (metadata and events) or an object with the single field error; no
\* exception leaves the function.
C1_NeverThrows ==
    /\ ~Done => result = NoResult
    /\ Done => IsErrorResult(result) \/ IsResponse(result)

\* C1 witness: the mapping of a null event threw and the call returned the
\* error object made by the catch clause
C1_Witness ==
    /\ Done /\ HasLitcal(data) /\ ~AllMappable(data)
    /\ IsErrorResult(result)
    /\ result.json.error # "No calendar data available"

\* C2: with a month filter m, the events of the response are exactly the
\* canonical events (among those the grade filter lets through) whose date
\* string is non-null and has month m.
C2_MonthFilterKeepsCalendarMonth ==
    (Done /\ IsResponse(result) /\ monthFilter.t = "number") =>
        \A i \in 1..Len(CanonicalList(data)) :
            LET e == CanonicalList(data)[i]
            IN (GradeFilterGiven(gradeFilter) => InGradeList(e, gradeFilter)) =>
                 ( (Count(result.json.events, e) > 0)
                   <=> (e.date # Null /\ StringMonth(e.date.v) = monthFilter.v) )

\* C3: in a response, every event before one that has a date has a date too,
\* and a date that is not later.
C3_SortedNullsLast ==
    (Done /\ IsResponse(result)) =>
        \A i, j \in 1..Len(result.json.events) :
            (i < j /\ result.json.events[j].date # Null) =>
                /\ result.json.events[i].date # Null
                /\ DateNumber(result.json.events[i].date.v)
                     <= DateNumber(result.json.events[j].date.v)

\* C3 witness: the payload lists an undated event first and a February event
\* before a January one; the response has them in date order, the undated last
C3_Witness ==
    /\ Done /\ IsResponse(result) /\ HasLitcal(data)
    /\ Len(RawEventList(data)) = 3 /\ AllMappable(data)
    /\ RawEventList(data)[1].date = Null
    /\ RawEventList(data)[2].date = Str("2026-02-01T00:00:00+00:00")
    /\ Len(result.json.events) = 3
    /\ result.json.events[1].date = Str("2026-01-05")
    /\ result.json.events[2].date = Str("2026-02-01")
    /\ result.json.events[3].date = Null

\* C4: a litcal given as a mapping is formatted as the array of its values is,
\* and with no filter a mapping of n events yields n events.
C4_MappingAsArray ==
    (Done /\ HasLitcal(data) /\ data.litcal.t = "object") =>
        /\ result = formatCalendarResponse([data EXCEPT !.litcal = Arr(RawEventList(data))],
                                           monthFilter, gradeFilter, tz)
        /\ (Absent(monthFilter) /\ Absent(gradeFilter) /\ AllMappable(data)) =>
              /\ IsResponse(result)
              /\ Len(result.json.events) = Len(data.litcal.entries)

\* C4 witness: a mapping of three events, no filter, three events returned
C4_Witness ==
    /\ Done /\ HasLitcal(data) /\ data.litcal.t = "object"
    /\ Len(data.litcal.entries) = 3
    /\ Absent(monthFilter) /\ Absent(gradeFilter)
    /\ IsResponse(result) /\ result.json.metadata.total_events = 3

\* C5: a payload that is absent or has no litcal field gives the error result
\* "No calendar data available".
C5_NoCalendarData ==
    (Done /\ ~HasLitcal(data)) =>
        result = Return([error |-> "No calendar data available"])

\* C5 witness: the payload is an object with settings and no litcal
C5_Witness ==
    /\ Done /\ data.t = "object" /\ ~HasLitcal(data)
    /\ result.json.error = "No calendar data available"

\* C6 as claimed: with both filters absent the call returns a response with
\* one canonical event per raw event and total_events the number of raw events.
C6_NoFilterKeepsAll_Original ==
    (Done /\ HasLitcal(data) /\ Absent(monthFilter) /\ Absent(gradeFilter)) =>
        /\ IsResponse(result)
        /\ result.json.metadata.total_events = Len(RawEventList(data))
        /\ Len(result.json.events) = Len(RawEventList(data))

\* C6 as amended: with both filters absent and no null entry in the event
\* list, the call returns a response that holds each canonical event as many
\* times as the payload does, and total_events is the number of raw events.
C6_NoFilterKeepsAll ==
    (Done /\ HasLitcal(data) /\ AllMappable(data)
          /\ Absent(monthFilter) /\ Absent(gradeFilter)) =>
        /\ IsResponse(result)
        /\ result.json.metadata.total_events = Len(RawEventList(data))
        /\ Len(result.json.events) = Len(RawEventList(data))
        /\ \A i \in 1..Len(CanonicalList(data)) :
              Count(result.json.events, CanonicalList(data)[i])
                = Count(CanonicalList(data), CanonicalList(data)[i])

\* C6 witness: three different raw events, no filter, all three returned
C6_Witness ==
    /\ Done /\ HasLitcal(data) /\ AllMappable(data)
    /\ monthFilter = Undefined /\ gradeFilter = Undefined
    /\ Len(RawEventList(data)) = 3
    /\ Cardinality({CanonicalList(data)[i] : i \in 1..3}) = 3
    /\ IsResponse(result) /\ result.json.metadata.total_events = 3

\* C8: with a month filter, no event of the response has a null date.
C8_MonthFilterDropsUndated ==
    (Done /\ IsResponse(result) /\ ~Absent(monthFilter)) =>
        \A i \in 1..Len(result.json.events) : result.json.events[i].date # Null

\* C8 witness: a month filter met an undated event and a dated one, and kept
\* the dated one only
C8_Witness ==
    /\ Done /\ IsResponse(result) /\ ~Absent(monthFilter)
    /\ HasLitcal(data) /\ AllMappable(data)
    /\ \E i \in 1..Len(CanonicalList(data)) : CanonicalList(data)[i].date = Null
    /\ Len(result.json.events) = 1

\* the canonical events the month filter lets through
AfterMonthFilter(d) ==
    LET InMonth(e) == MonthMatches(e, monthFilter, tz)
    IN IF Absent(monthFilter) THEN CanonicalList(d) ELSE SelectSeq(CanonicalList(d), InMonth)

\* C9: with a non-empty grade filter G the response holds exactly the events
\* that pass the month filter and whose grade is in G; an empty or absent G
\* removes none of the events that pass the month filter.
C9_GradeFilterMembership ==
    (Done /\ IsResponse(result)) =>
        LET base == AfterMonthFilter(data)
            restricts == ~Absent(gradeFilter) /\ Len(gradeFilter.v) > 0
        IN /\ \A i \in 1..Len(base) :
                Count(result.json.events, base[i])
                  = IF restricts /\ ~InGradeList(base[i], gradeFilter) THEN 0
                    ELSE Count(base, base[i])
           /\ \A i \in 1..Len(result.json.events) :
                Count(base, result.json.events[i]) > 0

\* C9 witness: the filter [3, 5] kept an event of grade 5 and dropped one of
\* grade 2
C9_Witness ==
    /\ Done /\ IsResponse(result) /\ gradeFilter = Arr(<<3, 5>>)
    /\ \E i \in 1..Len(result.json.events) : result.json.events[i].grade = Num(5)
    /\ \E i \in 1..Len(AfterMonthFilter(data)) : AfterMonthFilter(data)[i].grade = Num(2)

Contains(s, sub) ==
    \E i \in 1..(Len(s) - Len(sub) + 1) : SubSeq(s, i, i + Len(sub) - 1) = sub

\* C11: when a raw event cannot be mapped, the call returns an error result,
\* and for a keyed litcal the error text names the key of an entry that
\* failed.
C11_MappingFailureCarriesKey ==
    (Done /\ HasLitcal(data) /\ ~AllMappable(data)) =>
        /\ IsErrorResult(result)
        /\ data.litcal.t = "object" =>
              \E i \in 1..Len(data.litcal.entries) :
                  /\ data.litcal.entries[i].v = Null
                  /\ Contains(result.json.error, data.litcal.entries[i].k)

----------------------------------------------------------------------------
(* Properties of the rules, checked under SpecRules *)

Called(fn) == Done /\ args.fn = fn

\* the UTC calendar day of each epoch second of EpochSeconds
UTCDay ==
    { <<Num(1), "1970-01-01">>, <<Num(86399), "1970-01-01">>, <<Num(86400), "1970-01-02">>,
      <<Num(5097600), "1970-03-01">>, <<Num(5183999), "1970-03-01">>,
      <<Num(5184000), "1970-03-02">>, <<Num(31535999), "1970-12-31">>,
      <<Num(31536000), "1971-01-01">>, <<Num(68169600), "1972-02-29">>,
      <<Num(68255999), "1972-02-29">>, <<Num(68256000), "1972-03-01">>,
      <<Num(951782400), "2000-02-29">>, <<Num(951868799), "2000-02-29">>,
      <<Num(951868800), "2000-03-01">>, <<Num(978307199), "2000-12-31">>,
      <<Num(978307200), "2001-01-01">>, <<Num(1709164800), "2024-02-29">>,
      <<Num(1709251199), "2024-02-29">>, <<Num(1709251200), "2024-03-01">>,
      <<Num(1735689600), "2025-01-01">>, <<Num(1767571200), "2026-01-05">>,
      <<Num(2147483647), "2038-01-19">>, <<BigNum(2, 147483648), "2038-01-19">>,
      <<BigNum(4, 107456000), "2100-02-28">>, <<BigNum(4, 107542399), "2100-02-28">>,
      <<BigNum(4, 107542400), "2100-03-01">>, <<BigNum(32, 503679999), "2999-12-31">>,
      <<BigNum(32, 503680000), "3000-01-01">>, <<BigNum(253, 402214399), "9999-12-30">>,
      <<BigNum(253, 402214400), "9999-12-31">>, <<BigNum(253, 402300799), "9999-12-31">> }

\* C13: for an epoch second of the supported range formatDate returns the
\* 10-character YYYY-MM-DD string of the UTC day of that second, and that
\* string formats to itself again.
C13_EpochSecondsToUTCDay ==
    (Called("formatDate") /\ args.x \in EpochSeconds) =>
        /\ result.kind = "return" /\ result.json.t = "string"
        /\ Len(result.json.v) = 10
        /\ <<args.x, result.json.v>> \in UTCDay
        /\ formatDate(result.json, tz) = result.json

\* C13 witness: the last second of the range has been formatted as 9999-12-31
C13_Witness ==
    /\ Called("formatDate") /\ args.x = BigNum(253, 402300799)
    /\ result = Return(Str("9999-12-31"))

\* C14: for a value that is no date (an unparseable string, a plain object,
\* an array, a boolean, NaN) formatDate returns null.
C14_NotADateGivesNull ==
    (Called("formatDate") /\ args.x \in NotDates) => result = Return(Null)

\* C15: for a falsy value formatDate returns null, so formatDate(0) is null,
\* while formatDate(1) is "1970-01-01".
C15_FalsyGivesNull ==
    /\ (Called("formatDate") /\ args.x \in Falsy) => result = Return(Null)
    /\ (Called("formatDate") /\ args.x = Num(1)) => result = Return(Str("1970-01-01"))

\* C15 witness: formatDate(0) has returned null
C15_Witness == Called("formatDate") /\ args.x = Num(0) /\ result = Return(Null)

\* what parseMonthFilter is to return for each input of MonthInputs
MonthExpected ==
    { <<Undefined, Undefined>>, <<Str(""), Undefined>>, <<Str("1"), Num(1)>>,
      <<Str("5"), Num(5)>>, <<Str("12"), Num(12)>>, <<Str(" 5 "), Num(5)>>,
      <<Str("\t7"), Num(7)>>, <<Str("13"), Undefined>>, <<Str("0"), Undefined>>,
      <<Str("abc"), Undefined>>, <<Str("5.7"), Num(5)>>, <<Str("12abc"), Num(12)>>,
      <<Str("-3"), Undefined>>, <<Str("+7"), Num(7)>>, <<Str("1e1"), Num(1)>>,
      <<Str("007"), Num(7)>>, <<Str(" "), Undefined>>, <<Str("0x5"), Undefined>>,
      <<Str("1 2"), Num(1)>>, <<Str("99"), Undefined>>, <<Str("a5"), Undefined>>,
      <<Str("12.9"), Num(12)>> }

\* C16: parseMonthFilter returns the leading integer of the trimmed input
\* when it is in 1..12 and undefined otherwise; it never returns a number
\* outside 1..12.
C16_ParseMonthFilter ==
    Called("parseMonthFilter") =>
        /\ result.kind = "return"
        /\ <<args.x, result.json>> \in MonthExpected
        /\ result.json = Undefined \/ (result.json.t = "number" /\ result.json.v \in 1..12)

\* C16 witness: parseMonthFilter(" 5 ") has returned 5
C16_Witness == Called("parseMonthFilter") /\ args.x = Str(" 5 ") /\ result = Return(Num(5))

\* what parseGradeFilter is to return for each input of GradeInputs
GradeExpected ==
    { <<Undefined, Undefined>>, <<Str(""), Undefined>>, <<Num(0), Undefined>>,
      <<Num(5), Arr(<<5>>)>>, <<Num(7), Arr(<<7>>)>>, <<Num(8), Undefined>>,
      <<Num(-3), Undefined>>, <<Str("0"), Arr(<<0>>)>>, <<Str("3"), Arr(<<3>>)>>,
      <<Str("2,3"), Arr(<<2, 3>>)>>, <<Str(" 2 , 3 "), Arr(<<2, 3>>)>>,
      <<Str("2,,3"), Arr(<<2, 3>>)>>, <<Str("2,2"), Arr(<<2, 2>>)>>,
      <<Str("7,0,7"), Arr(<<7, 0, 7>>)>>, <<Str("abc,def"), Undefined>>,
      <<Str("99"), Undefined>>, <<Str("8,3"), Arr(<<3>>)>>, <<Str("3abc"), Arr(<<3>>)>>,
      <<Str("-1,1"), Arr(<<1>>)>>, <<Str(","), Undefined>>, <<Str(" "), Undefined>>,
      <<Str("1.9,x,6"), Arr(<<1, 6>>)>>, <<Str("3,"), Arr(<<3>>)>> }

\* C17: parseGradeFilter returns, in order and with duplicates, the pieces of
\* the input that are integers in 0..7, or undefined when there is none; a
\* number is one piece; a falsy input gives undefined.
C17_ParseGradeFilter ==
    Called("parseGradeFilter") =>
        /\ result.kind = "return"
        /\ <<args.x, result.json>> \in GradeExpected
        /\ result.json = Undefined
             \/ /\ result.json.t = "array" /\ Len(result.json.v) > 0
                /\ \A i \in 1..Len(result.json.v) : result.json.v[i] \in 0..7

\* C17 witness: parseGradeFilter("1.9,x,6") has returned [1, 6]
C17_Witness ==
    Called("parseGradeFilter") /\ args.x = Str("1.9,x,6") /\ result = Return(Arr(<<1, 6>>))

YearError == Throw(Error("Year must be between 1970 and 9999"))

\* the year the host's clock shows in the model: it starts on 2026-11-02
CurrentYear == 2026

\* what validateYear is to do for each input of YearInputs
YearExpected ==
    { <<Undefined, Return(Num(CurrentYear))>>, <<Str(""), Return(Num(CurrentYear))>>,
      <<Str("  "), Return(Num(CurrentYear))>>, <<Str("2026"), Return(Num(2026))>>,
      <<Str(" 2027 "), Return(Num(2027))>>, <<Str("1970"), Return(Num(1970))>>,
      <<Str("9999"), Return(Num(9999))>>, <<Str("1969"), YearError>>,
      <<Str("10000"), YearError>>, <<Str("abc"), YearError>>,
      <<Str("2026abc"), Return(Num(2026))>>, <<Str("-2026"), YearError>>,
      <<Str("+2026"), Return(Num(2026))>>, <<Str("2026.9"), Return(Num(2026))>>,
      <<Str("0"), YearError>>, <<Str("20 26"), YearError>>, <<Str("y2026"), YearError>> }

\* C18: validateYear throws "Year must be between 1970 and 9999" when the
\* trimmed input has no leading integer or the integer is outside
\* 1970..9999; otherwise it returns that integer, the current year for an
\* undefined or empty input; a returned year is always in 1970..9999.
C18_ValidateYear ==
    Called("validateYear") =>
        /\ <<args.x, result>> \in YearExpected
        /\ result = YearError
             \/ /\ result.kind = "return" /\ result.json.t = "number"
                /\ result.json.v \in 1970..9999

\* C18 witness: validateYear("1969") has thrown the range error
C18_Witness == Called("validateYear") /\ args.x = Str("1969") /\ result = YearError

----------------------------------------------------------------------------
(* Properties of the get_general_calendar tool, checked under SpecTool *)

\* grade inputs without a piece that is a grade, month inputs that are no month
InvalidGradeInputs == {Str("abc,def"), Str("99")}
InvalidMonthInputs == {Str("13")}

\* the inputs that ask for month m
ValidMonthInputs(m) == {Str(NatToString(m)), Num(m)}

AllReturned(e) ==
    Count(result.json.events, e) = Count(CanonicalList(data), e)

\* C7: an input that is no valid filter restricts nothing.  With an invalid
\* grade input and a valid month m, every event whose date is in month m is
\* returned whatever its grade; with an invalid month input and an invalid
\* or absent grade input, every event is returned.
C7_InvalidFilterNoRestriction ==
    (Done /\ IsResponse(result)) =>
        \A i \in 1..Len(CanonicalList(data)) :
            LET e == CanonicalList(data)[i]
            IN /\ \A m \in 1..12 :
                    ( /\ args.grade \in InvalidGradeInputs
                      /\ args.month \in ValidMonthInputs(m)
                      /\ e.date # Null /\ StringMonth(e.date.v) = m ) => AllReturned(e)
               /\ ( /\ args.month \in InvalidMonthInputs \cup {Undefined}
                    /\ args.grade \in InvalidGradeInputs ) => AllReturned(e)
               /\ ( /\ args.month \in InvalidMonthInputs
                    /\ args.grade = Undefined ) => AllReturned(e)

\* The part of C7 that does not depend on which events the month filter
\* takes to be in month m: with an invalid grade input no grade filter is
\* applied, and with an invalid month input no month filter is applied.
InvalidInputIsNoFilter ==
    Done =>
        /\ args.grade \in InvalidGradeInputs => gradeFilter = Undefined
        /\ args.month \in InvalidMonthInputs => monthFilter = Undefined
        /\ (IsResponse(result) /\ args.grade \in InvalidGradeInputs) =>
              \A i \in 1..Len(AfterMonthFilter(data)) :
                  Count(result.json.events, AfterMonthFilter(data)[i])
                    = Count(AfterMonthFilter(data), AfterMonthFilter(data)[i])

----------------------------------------------------------------------------
(* Properties of the server, checked under SpecServer *)

CalendarTools == {"get_general_calendar", "get_national_calendar", "get_diocesan_calendar"}

\* year arguments that validateYear is to reject
InvalidYears == {Str("1969"), Str("abc")}

\* the response holds one text item whose text is an object with only error
IsErrorPayload(r) ==
    /\ r.kind = "response" /\ Len(r.content) = 1
    /\ r.content[1].type = "text" /\ DOMAIN r.content[1].text = {"error"}

\* C19: a call of one of the three calendar tools with a year that fails
\* validation ends at once with an {error: message} payload, issues no
\* upstream request and leaves the cache as it was; when the nation or
\* diocese is given the message is that of validateYear.
C19_YearFailureAtBoundary ==
    [][(pc = "idle" /\ args'.tool \in CalendarTools /\ args'.year \in InvalidYears) =>
          /\ pc' = "done"
          /\ IsErrorPayload(result')
          /\ (args'.tool = "get_general_calendar"
                \/ Truthy(OptTrim(args'.nation)) \/ Truthy(OptTrim(args'.diocese))) =>
                 result'.content[1].text.error = "Year must be between 1970 and 9999"
          /\ pending' = NoRequest
          /\ cache' = cache]_vars

\* C19 witness: with entries in the cache, get_national_calendar for nation
\* "us" and year "1969" has ended with the year error and nothing in flight
C19_Witness ==
    /\ Done /\ args.tool = "get_national_calendar"
    /\ args.nation = Str("us") /\ args.year = Str("1969")
    /\ result.content[1].text = [error |-> "Year must be between 1970 and 9999"]
    /\ cache # {} /\ pending = NoRequest

\* C20: a name that is none of the five tools gets the error payload
\* "Unknown tool: <name>" with isError true and nothing in flight; one of the
\* five gets one text item with isError false.
C20_UnknownToolIsError ==
    Done =>
        /\ result.kind = "response"
        /\ args.tool \notin KnownTools =>
              /\ result = ToolResponse([error |-> "Unknown tool: " \o args.tool], TRUE)
              /\ pending = NoRequest
        /\ args.tool \in KnownTools =>
              /\ Len(result.content) = 1 /\ result.content[1].type = "text"
              /\ result.isError = FALSE

\* a name that handlers[name] does not find gets the "Unknown tool" payload,
\* and whatever the name the call ends in one response with one text item
NameWithoutPropertyIsUnknown ==
    Done =>
        /\ result.kind = "response" /\ Len(result.content) = 1
        /\ ~HasHandler(args.tool) =>
              result = ToolResponse([error |-> "Unknown tool: " \o args.tool], TRUE)
        /\ args.tool \in KnownTools => result.isError = FALSE

\* get_liturgical_events has answered with a list of events
EventsAnswered ==
    /\ Done /\ args.tool = "get_liturgical_events"
    /\ "events" \in DOMAIN result.content[1].text

\* the fields of a record that come from the source definition
EventFields == {"name", "grade", "color", "common", "date", "liturgical_year"}

\* rec is what the normalizer is to make of the source definition src
DefaultsToNull(rec, src) ==
    /\ \A f \in EventFields :
          OptField(src, f) = Undefined => f \in DOMAIN rec /\ rec[f] = Null
    /\ "grade_name" \in DOMAIN rec
    /\ rec.grade_name = IF OptField(src, "grade") \in {Undefined, Null} THEN Null
                        ELSE Str(GRADE_MAP[src.grade.v])
    /\ rec.grade = Null => rec.grade_name = Null

\* C21: in the list get_liturgical_events returns without a grade filter,
\* every field absent from the source definition is null, and grade_name is
\* the Grade Table name of a present grade and null otherwise, null in
\* particular when the record's grade is null.
C21_EventDefaults ==
    (EventsAnswered /\ args.grade = Undefined) =>
        \A i \in 1..Len(data.litcal_events.entries) :
            DefaultsToNull(result.content[1].text.events[i],
                           data.litcal_events.entries[i].v)

\* the defaults hold for every definition whose grade is not the value null
DefaultsUnlessGradeIsNull ==
    (EventsAnswered /\ args.grade = Undefined) =>
        \A i \in 1..Len(data.litcal_events.entries) :
            OptField(data.litcal_events.entries[i].v, "grade") # Null =>
                DefaultsToNull(result.content[1].text.events[i],
                               data.litcal_events.entries[i].v)

\* the keys of the source definitions whose grade is a number of the set G,
\* in the order of the mapping
KeysWithGradeIn(entries, G) ==
    LET Kept == SelectSeq(entries, LAMBDA entry : /\ OptField(entry.v, "grade").t = "number"
                                                  /\ OptField(entry.v, "grade").v \in G)
    IN [i \in 1..Len(Kept) |-> Str(Kept[i].k)]

\* the event_key of each returned record, in order
ReturnedKeys == [i \in 1..Len(result.content[1].text.events) |->
                    result.content[1].text.events[i].event_key]

\* C22: with a non-empty grade filter G get_liturgical_events returns exactly
\* the records whose grade is non-null and in G, without a filter it returns
\* every definition of the mapping, and total_events is the length of the
\* returned list.
C22_EventsGradeFilter ==
    EventsAnswered =>
        /\ result.content[1].text.total_events = Len(result.content[1].text.events)
        /\ args.grade = Str("3,x") =>
              ReturnedKeys = KeysWithGradeIn(data.litcal_events.entries, {3})
        /\ args.grade = Undefined =>
              ReturnedKeys = [i \in 1..Len(data.litcal_events.entries) |->
                                 Str(data.litcal_events.entries[i].k)]

\* C22 witness: of three definitions with grades 7, 3 and null the filter
\* "3,x" has kept the one of grade 3
C22_Witness ==
    /\ EventsAnswered /\ args.grade = Str("3,x")
    /\ Len(data.litcal_events.entries) = 3
    /\ ReturnedKeys = <<Str("StMartha")>>
    /\ result.content[1].text.total_events = 1
    /\ result.content[1].text.filters_applied = [grades |-> Arr(<<3>>)]

----------------------------------------------------------------------------
(* Properties of the cache, checked under SpecTool *)

\* the key under which getGeneralCalendar caches the calendar of a call
KeyOfCall(a, t, localTz) == calendarKey("general", validateYear(a.year, t, localTz).y, a.locale)

\* the entry of key k in cache c is no older than the TTL at time t
Fresh(c, k, t) == HasEntry(c, k) /\ t - EntryOf(c, k).timestamp <= ttl

\* a call with a valid year at time now reads the cache under key k: an entry
\* stored at most TTL ago is returned as it is without a request, an older
\* one is deleted and the upstream is asked again
ReadsCache(k) ==
    IF Fresh(cache, k, now)
    THEN /\ pc' = "done" /\ pending' = NoRequest
         /\ data' = EntryOf(cache, k).data
         /\ cache' = cache
    ELSE /\ pc' = "fetching" /\ pending'.key = k
         /\ cache' = {entry \in cache : entry.key # k}

\* C23: an entry stored at time s is returned by a call at time t with
\* t - s <= TTL, without an upstream request, and is deleted by a call with
\* t - s > TTL, which asks the upstream again; s is the time of the answer
\* that was stored.
C23_EntryExpiresAfterTtl ==
    [][/\ (pc = "idle" /\ pc' # "idle" /\ validateYear(args'.year, now, tz).ok) =>
              ReadsCache(KeyOfCall(args', now, tz))
       /\ (pc = "fetching" /\ pc' = "done" /\ data' # Undefined) =>
              EntryOf(cache', pending.key) = [key |-> pending.key, data |-> data', timestamp |-> now]
      ]_vars

\* C23 witness: the calendar of 2026 stored at time 0 has been returned at
\* time TTL, after the calendar of 2027 was stored at time TTL
C23_Witness ==
    /\ Done /\ args # NoArgs /\ now = ttl /\ pending = NoRequest
    /\ validateYear(args.year, now, tz).ok
    /\ KeyOfCall(args, now, tz) = "general:2026:en"
    /\ HasEntry(cache, "general:2026:en") /\ HasEntry(cache, "general:2027:en")
    /\ EntryOf(cache, "general:2026:en").timestamp = 0
    /\ EntryOf(cache, "general:2027:en").timestamp = ttl
    /\ data = EntryOf(cache, "general:2026:en").data

----------------------------------------------------------------------------
(* api/client: calls of fetchAPI one after the other, with the clock, the
   timer of setTimeout and the upstream that answers in chunks *)

\* the delay given to setTimeout, in ms
API_TIMEOUT_MS == 30000

\* clock readings of this specification, in steps of a third of the delay
MaxFetchTicks == 4

FetchTickMs == API_TIMEOUT_MS \div 3

FetchRequests ==
    {[url |-> API_BASE_URL \o "/calendar/2026", locale |-> "en"],
     [url |-> API_BASE_URL \o "/calendar/nation/US/2026", locale |-> "la"],
     [url |-> API_BASE_URL \o "/calendars", locale |-> "en"]}

\* what the upstream may answer: the status, the body in the chunks it
\* arrives in, and the value the whole body denotes as JSON (undefined when
\* the body is not JSON)
UpstreamResponses ==
    {[status |-> 200, chunks |-> <<"{\"litcal\":", "[]}">>,
      json |-> [t |-> "object", litcal |-> Arr(<<>>)]],
     [status |-> 200, chunks |-> <<"null">>, json |-> Null],
     [status |-> 200, chunks |-> <<"<html>", "</html>">>, json |-> Undefined],
     [status |-> 404, chunks |-> <<"Not ", "Found">>, json |-> Undefined],
     [status |-> 500, chunks |-> <<"{\"error\":", "\"down\"}">>,
      json |-> [t |-> "object", error |-> Str("down")]]}

\* the text of chunks one after the other
RECURSIVE Concat(_)
Concat(chunks) == IF chunks = <<>> THEN "" ELSE Head(chunks) \o Concat(Tail(chunks))

AbortError == [name |-> "AbortError", message |-> "This operation was aborted"]

\* what fetch and the body readers reject with when the connection fails
NetworkError == [name |-> "TypeError", message |-> "fetch failed"]

\* what res.json() rejects with when the body is not JSON
SyntaxError == [name |-> "SyntaxError", message |-> "Unexpected token in JSON"]

\* clearTimeout that leaves the timer as it is
clearTimeoutSkipped(timer) == timer

\* clearTimeout(timeout): a timer that has not fired yet never will
clearTimeout(timer) ==
    IF timer.state = "armed" THEN [timer EXCEPT !.state = "cleared"] ELSE timer

\* a call of fetchAPI awaits fetch, res.json() or res.text()
InFlight == pc \in {"fetch", "json", "text"}

InitFetch ==
    /\ tz = 0
    /\ data = Undefined
    /\ monthFilter = Undefined
    /\ gradeFilter = Undefined
    /\ result = NoResult
    /\ pc = "idle"
    /\ args = NoArgs
    /\ pending = NoRequest
    /\ cache = {}
    /\ now = 0
    /\ NoFetch

\* fetchAPI leaves its try block with outcome: the finally clause runs
Finally(outcome) ==
    /\ result' = outcome
    /\ pc' = "exit"
    /\ timeout' = clearTimeout(timeout)

\* fetchAPI(url, locale) up to await fetch(...)
FetchAPI(request) ==
    /\ pc = "idle"
    /\ now + API_TIMEOUT_MS <= MaxFetchTicks * FetchTickMs
    /\ controller' = [aborted |-> FALSE]
    /\ timeout' = [state |-> "armed", setAt |-> now, delay |-> API_TIMEOUT_MS]
    /\ pending' = request
    /\ pc' = "fetch"
    /\ UNCHANGED <<tz, data, monthFilter, gradeFilter, result, args, cache, now, res>>

\* the status line and headers arrive: fetch resolves, res.ok is tested and
\* fetchAPI awaits res.json() or res.text()
Respond(response) ==
    /\ pc = "fetch"
    /\ res' = [status |-> response.status, ok |-> response.status \in 200..299,
               body |-> response, received |-> 0]
    /\ pc' = IF res'.ok THEN "json" ELSE "text"
    /\ UNCHANGED <<tz, data, monthFilter, gradeFilter, result, args, pending, cache, now,
                   timeout, controller>>

\* a chunk of the body arrives; with the last one res.json() resolves to the
\* parsed body or rejects, or res.text() resolves and the API error is thrown
ReceiveChunk ==
    /\ pc \in {"json", "text"}
    /\ res' = [res EXCEPT !.received = @ + 1]
    /\ IF res'.received < Len(res.body.chunks)
       THEN UNCHANGED <<result, pc, timeout>>
       ELSE IF pc = "text"
       THEN Finally(Throw(Error("API Error: " \o NatToString(res.status) \o " - "
                                   \o Concat(res.body.chunks))))
       ELSE IF res.body.json = Undefined THEN Finally(Throw(SyntaxError))
       ELSE Finally(Return(res.body.json))
    /\ UNCHANGED <<tz, data, monthFilter, gradeFilter, args, pending, cache, now, controller>>

\* the connection fails: the promise fetchAPI awaits rejects
ConnectionLost ==
    /\ InFlight
    /\ Finally(Throw(NetworkError))
    /\ UNCHANGED <<tz, data, monthFilter, gradeFilter, args, pending, cache, now,
                   controller, res>>

\* the timer fires: controller.abort() rejects the promise fetchAPI awaits
TimerFires ==
    /\ timeout.state = "armed"
    /\ now >= timeout.setAt + timeout.delay
    /\ controller' = [aborted |-> TRUE]
    /\ timeout' = [timeout EXCEPT !.state = "fired"]
    /\ IF InFlight
       THEN result' = Throw(AbortError) /\ pc' = "exit"
       ELSE UNCHANGED <<result, pc>>
    /\ UNCHANGED <<tz, data, monthFilter, gradeFilter, args, pending, cache, now, res>>

\* the caller of fetchAPI takes the outcome
Settle ==
    /\ pc = "exit"
    /\ pc' = "idle"
    /\ result' = NoResult
    /\ pending' = NoRequest
    /\ res' = Undefined
    /\ UNCHANGED <<tz, data, monthFilter, gradeFilter, args, cache, now, timeout, controller>>

FetchTick ==
    /\ now < MaxFetchTicks * FetchTickMs
    /\ now' = now + FetchTickMs
    /\ UNCHANGED <<tz, data, monthFilter, gradeFilter, result, pc, args, pending, cache>>
    /\ UNCHANGED fetchVars

NextFetch ==
    \/ \E request \in FetchRequests : FetchAPI(request)
    \/ \E response \in UpstreamResponses : Respond(response)
    \/ ReceiveChunk
    \/ ConnectionLost
    \/ TimerFires
    \/ Settle
    \/ FetchTick

SpecFetch == InitFetch /\ [][NextFetch]_vars

\* time passes and the event loop runs the timers that are due
SpecFetchFair == SpecFetch /\ WF_vars(FetchTick) /\ WF_vars(TimerFires)

----------------------------------------------------------------------------
(* Properties of fetchAPI, checked under SpecFetchFair *)

Exited == pc = "exit"

\* C24: a call of fetchAPI always ends; it ends either with the parsed JSON
\* of the whole body of a success response or with a failure, never with
\* part of a body; the request is aborted only when 30 seconds have passed
\* since the call, and an aborted call ends with a failure; when the call
\* has ended the timer is no longer armed.
C24_CompletesOrAborts ==
    /\ [](Exited =>
            /\ timeout.state # "armed"
            /\ \/ result.kind = "throw"
               \/ /\ result.kind = "return" /\ ~controller.aborted
                  /\ res.ok /\ res.received = Len(res.body.chunks)
                  /\ result.json = res.body.json)
    /\ [](controller.aborted =>
            /\ timeout.delay = 30000 /\ now >= timeout.setAt + 30000
            /\ Exited => result = Throw(AbortError))
    /\ [](Exited /\ res # Undefined /\ ~res.ok => result.kind = "throw")
    /\ (InFlight ~> Exited)

\* C24 witness: the timer has fired after the first of the two chunks of a
\* success response arrived, and the call has ended with the abort error
C24_Witness ==
    /\ Exited /\ controller.aborted /\ timeout.state = "fired"
    /\ res # Undefined /\ res.ok /\ res.received = 1 /\ Len(res.body.chunks) = 2
    /\ result = Throw(AbortError)

----------------------------------------------------------------------------
(* Two invocations of getGeneralCalendar that share the cache: each awaits
   its own upstream request, and the steps of the two interleave at the
   awaits.  In this specification pc, pending, result and res are functions
   of the invocation. *)

Callers == {1, 2}

OverlapYears == {2026, 2027}

\* the request getGeneralCalendar hands to getOrFetch for a year
CalendarRequest(year) ==
    Request(API_BASE_URL \o "/calendar/" \o String(Num(year)), "en",
            calendarKey("general", year, "en"))

\* two answers of the upstream that can be told apart
OverlapPayloads ==
    {[t |-> "object", settings |-> Settings,
      litcal |-> Arr(<< RawEvent(Str("Jan5"), Num(1767571200), Num(2)) >>)],
     [t |-> "object", settings |-> Settings, litcal |-> Arr(<<>>)]}

InitOverlap ==
    /\ tz = 0
    /\ data = Undefined
    /\ monthFilter = Undefined
    /\ gradeFilter = Undefined
    /\ args = NoArgs
    /\ timeout = NoTimeout
    /\ controller = NoController
    /\ cache = {}
    /\ now = 0
    /\ pc = [c \in Callers |-> "idle"]
    /\ pending = [c \in Callers |-> NoRequest]
    /\ result = [c \in Callers |-> NoResult]
    /\ res = [c \in Callers |-> Undefined]

\* invocation c runs cache.getOrFetch up to its await: a hit returns the
\* cached payload, a miss issues the request of fetchFn
GetOrFetch(c, year) ==
    /\ pc[c] = "idle"
    /\ LET Started(h) ==
               /\ cache' = h.cache
               /\ pending' = [pending EXCEPT ![c] = CalendarRequest(year)]
               /\ IF h.kind = "hit"
                  THEN /\ result' = [result EXCEPT ![c] = Return(h.value)]
                       /\ pc' = [pc EXCEPT ![c] = "done"]
                  ELSE /\ pc' = [pc EXCEPT ![c] = "fetching"]
                       /\ UNCHANGED result
       IN Started(getOrFetch(cache, CalendarRequest(year), now))
    /\ UNCHANGED <<tz, data, monthFilter, gradeFilter, args, now, timeout, controller, res>>

\* the request of invocation c is answered: getOrFetch stores the payload
\* and returns it
OverlapResolve(c, payload) ==
    /\ pc[c] = "fetching"
    /\ res' = [res EXCEPT ![c] = payload]
    /\ cache' = CacheSet(cache, pending[c].key, payload, now)
    /\ result' = [result EXCEPT ![c] = Return(payload)]
    /\ pc' = [pc EXCEPT ![c] = "done"]
    /\ UNCHANGED <<tz, data, monthFilter, gradeFilter, args, pending, now, timeout, controller>>

\* the request of invocation c fails: getOrFetch throws without storing
OverlapReject(c, e) ==
    /\ pc[c] = "fetching"
    /\ result' = [result EXCEPT ![c] = Throw(e)]
    /\ pc' = [pc EXCEPT ![c] = "done"]
    /\ UNCHANGED <<tz, data, monthFilter, gradeFilter, args, pending, cache, now,
                   timeout, controller, res>>

\* invocation c has returned; the next one may start
OverlapReturn(c) ==
    /\ pc[c] = "done"
    /\ pc' = [pc EXCEPT ![c] = "idle"]
    /\ pending' = [pending EXCEPT ![c] = NoRequest]
    /\ result' = [result EXCEPT ![c] = NoResult]
    /\ res' = [res EXCEPT ![c] = Undefined]
    /\ UNCHANGED <<tz, data, monthFilter, gradeFilter, args, cache, now, timeout, controller>>

OverlapTick ==
    /\ now < MaxTicks * TickMs
    /\ now' = now + TickMs
    /\ UNCHANGED <<tz, data, monthFilter, gradeFilter, result, pc, args, pending, cache>>
    /\ UNCHANGED fetchVars

NextOverlap ==
    \/ \E c \in Callers, year \in OverlapYears : GetOrFetch(c, year)
    \/ \E c \in Callers, payload \in OverlapPayloads : OverlapResolve(c, payload)
    \/ \E c \in Callers, e \in UpstreamErrors : OverlapReject(c, e)
    \/ \E c \in Callers : OverlapReturn(c)
    \/ OverlapTick

SpecOverlap == InitOverlap /\ [][NextOverlap]_vars

----------------------------------------------------------------------------
(* Properties of overlapping invocations, checked under SpecOverlap *)

Other(c) == CHOOSE d \in Callers : d # c

\* the step is not one of invocation c
Untouched(c) == pc'[c] = pc[c] /\ pending'[c] = pending[c] /\ result'[c] = result[c]

\* C25: an invocation that finds no fresh entry for its key issues its own
\* request whatever the other invocation is doing, also when that one awaits
\* a request for the same key; when its request is answered it returns that
\* answer and the cache holds exactly one entry for the key, the answer with
\* the time of this step; no step of one invocation changes the other.
C25_OverlappingFetches ==
    /\ [](\A e1, e2 \in cache : e1.key = e2.key => e1 = e2)
    /\ [][\A c \in Callers :
            /\ pc'[c] # pc[c] => Untouched(Other(c))
            /\ (pc[c] = "idle" /\ pc'[c] # "idle"
                  /\ ~Fresh(cache, pending'[c].key, now)) =>
                  /\ pc'[c] = "fetching"
                  /\ ~HasEntry(cache', pending'[c].key)
            /\ (pc[c] = "fetching" /\ pc'[c] = "done" /\ result'[c].kind = "return") =>
                  /\ result'[c] = Return(res'[c])
                  /\ {entry \in cache' : entry.key = pending[c].key}
                        = {[key |-> pending[c].key, data |-> res'[c], timestamp |-> now]}
                  /\ {entry \in cache' : entry.key # pending[c].key}
                        = {entry \in cache : entry.key # pending[c].key}
         ]_vars

\* C25 witness: both invocations asked for 2026 and each fetched; 1 returned
\* its answer, 2 returned a different one half a TTL after the start, and
\* the only entry of the cache is the answer of 2 with that time
C25_Witness ==
    /\ pc = [c \in Callers |-> "done"]
    /\ pending[1].key = "general:2026:en" /\ pending[2].key = "general:2026:en"
    /\ res[1] # Undefined /\ res[2] # Undefined /\ res[1] # res[2]
    /\ result[1] = Return(res[1]) /\ result[2] = Return(res[2])
    /\ now = TickMs
    /\ cache = {[key |-> "general:2026:en", data |-> res[2], timestamp |-> TickMs]}

----------------------------------------------------------------------------
(* Further properties of formatCalendarResponse, checked under SpecFormat *)

\* the canonical events that pass both filters, in the order of the payload
AfterFilters(d) ==
    IF GradeFilterGiven(gradeFilter)
    THEN SelectSeq(AfterMonthFilter(d), LAMBDA e : InGradeList(e, gradeFilter))
    ELSE AfterMonthFilter(d)

\* the events of list whose date is date, in the order of list
WithDate(list, date) == SelectSeq(list, LAMBDA e : e.date = date)

----------------------------------------------------------------------------
(* One call of formatCalendarResponse, without filters, on events of every
   grade of the table and of grades outside it *)

MaxGradeEvents == 2

\* the grades of the table, the numbers next to it and one far from it
GradeValues == (-1 .. 9) \cup {99}

GradeEvents == {RawEvent(Str("Event"), Str("2026-01-05"), Num(g)) : g \in GradeValues}

InitGrades ==
    /\ tz \in TimeZones
    /\ data \in {[t |-> "object", litcal |-> Arr(l), settings |-> Settings] :
                    l \in SeqsUpTo(GradeEvents, MaxGradeEvents)}
    /\ monthFilter = Undefined
    /\ gradeFilter = Undefined
    /\ result = NoResult
    /\ pc = "call"
    /\ args = NoArgs
    /\ pending = NoRequest
    /\ cache = {}
    /\ now = 0
    /\ NoFetch

SpecGrades == InitGrades /\ [][NextFormat]_vars

\* C27: every raw event is in the response whatever its grade, with the
\* grade as the payload gives it; grade_name is the name the Grade Table
\* has for a grade of 0..7 and "Unknown" for any other grade.
C27_GradeOutOfRangePassesThrough ==
    Done =>
        /\ IsResponse(result)
        /\ Len(result.json.events) = Len(data.litcal.v)
        /\ \A i \in 1..Len(data.litcal.v) :
              /\ result.json.events[i].grade = data.litcal.v[i].grade
              /\ result.json.events[i].grade_name
                    = IF data.litcal.v[i].grade.v \in 0..7
                      THEN Str(GRADE_MAP[data.litcal.v[i].grade.v])
                      ELSE Str("Unknown")

\* C27 witness: an event of grade 99 and one of grade 7 are both in the
\* response, as "Unknown" and as "Higher Solemnity"
C27_Witness ==
    /\ Done /\ IsResponse(result) /\ Len(result.json.events) = 2
    /\ result.json.events[1].grade = Num(99)
    /\ result.json.events[1].grade_name = Str("Unknown")
    /\ result.json.events[2].grade = Num(7)
    /\ result.json.events[2].grade_name = Str("Higher Solemnity")

----------------------------------------------------------------------------
(* Further properties of the server, checked under SpecServer *)

\* a nation or diocese argument that is missing or only white space
NoCode == {Undefined, Str(" ")}

\* the step ends the call with this error text, without a request and
\* without a change of the cache
EndsWithError(message) ==
    /\ pc' = "done"
    /\ result' = ToolResponse([error |-> message], FALSE)
    /\ pending' = NoRequest
    /\ cache' = cache

\* C28: get_national_calendar without a nation and get_diocesan_calendar
\* without a diocese end at once with the "code is required" error, whatever
\* the year argument, with no upstream request and the cache as it was.
C28_CodeRequired ==
    [][/\ (pc = "idle" /\ args'.tool = "get_national_calendar" /\ args'.nation \in NoCode) =>
              EndsWithError("Nation code is required (e.g., IT, US, NL, VA, CA)")
       /\ (pc = "idle" /\ args'.tool = "get_diocesan_calendar" /\ args'.diocese \in NoCode) =>
              EndsWithError("Diocese code is required (e.g., ROME-IT, BOSTON-US)")
      ]_vars

\* C28 witness: with entries in the cache, get_national_calendar with a
\* nation of one space and the year "1969" has ended with the nation error
C28_Witness ==
    /\ Done /\ args.tool = "get_national_calendar"
    /\ args.nation = Str(" ") /\ args.year = Str("1969")
    /\ result = ToolResponse([error |-> "Nation code is required (e.g., IT, US, NL, VA, CA)"], FALSE)
    /\ cache # {} /\ pending = NoRequest

----------------------------------------------------------------------------
(* Further properties of the cache, checked under SpecTool *)

\* what the handler returns when the upstream request failed
UpstreamFailures == {handleError(e) : e \in UpstreamErrors}

\* C29: when the upstream request fails the call ends with the error
\* payload of the failure, the cache is as it was and holds nothing fresh
\* for the key of the request; a call that finds nothing fresh for its key
\* asks the upstream.
C29_FailedFetchNotCached ==
    [][/\ (pc = "fetching" /\ pc' = "done" /\ data' = Undefined) =>
              /\ result' \in UpstreamFailures
              /\ IsErrorResult(result')
              /\ cache' = cache
              /\ ~HasEntry(cache', pending.key)
              /\ pending' = NoRequest
       /\ (pc = "idle" /\ pc' # "idle" /\ validateYear(args'.year, now, tz).ok
             /\ ~Fresh(cache, KeyOfCall(args', now, tz), now)) =>
              /\ pc' = "fetching"
              /\ pending'.key = KeyOfCall(args', now, tz)
      ]_vars

\* C29 witness: a request for the calendar of 2027 was aborted while the
\* cache held the calendar of 2026; the call has ended with the error and
\* the cache holds that one entry still
C29_Witness ==
    /\ Done /\ args # NoArgs /\ args.year = Str(" 2027 ")
    /\ result = Return([error |-> "This operation was aborted"])
    /\ Cardinality(cache) = 1 /\ HasEntry(cache, "general:2026:en")
    /\ pending = NoRequest

----------------------------------------------------------------------------
(* The handlers of the single-file version of the server, up to their await
   of fetchAPI: the text they return at once, or the request they issue.
   After the await they run the same statements as the handlers above. *)

\* the URL the single-file getLiturgicalEvents asks for
eventsUrlMonolithic(calendarType, nation, diocese) ==
    IF calendarType = "national" /\ Truthy(nation)
    THEN API_BASE_URL \o "/events/nation/" \o toUpperCase(Trim(nation.v))
    ELSE IF calendarType = "diocesan" /\ Truthy(diocese)
    THEN API_BASE_URL \o "/events/diocese/" \o Trim(diocese.v)
    ELSE API_BASE_URL \o "/events"

Asks(url, locale) == [kind |-> "fetch", url |-> url, locale |-> locale]

\* the try block of the three single-file calendar handlers up to the await
CalendarFetchMonolithic(path, a, t, localTz) ==
    LET Validated(year) ==
            IF ~year.ok THEN Return(handleError(year.error).json)
            ELSE Asks(API_BASE_URL \o "/calendar/" \o path \o String(Num(year.y)), a.locale)
    IN Validated(validateYear(a.year, t, localTz))

MonolithicStart(a, t, localTz) ==
    CASE a.tool = "get_general_calendar" -> CalendarFetchMonolithic("", a, t, localTz)
      [] a.tool = "get_national_calendar" ->
            IF ~Truthy(OptTrim(a.nation))
            THEN Return([error |-> "Nation code is required (e.g., IT, US, NL, VA, CA)"])
            ELSE CalendarFetchMonolithic("nation/" \o toUpperCase(Trim(a.nation.v)) \o "/",
                                         a, t, localTz)
      [] a.tool = "get_diocesan_calendar" ->
            IF ~Truthy(OptTrim(a.diocese))
            THEN Return([error |-> "Diocese code is required (e.g., ROME-IT, BOSTON-US)"])
            ELSE CalendarFetchMonolithic("diocese/" \o Trim(a.diocese.v) \o "/", a, t, localTz)
      [] a.tool = "list_available_calendars" -> Asks(API_BASE_URL \o "/calendars", "en")
      [] a.tool = "get_liturgical_events" ->
            Asks(eventsUrlMonolithic(CalendarTypeOf(a), a.nation, a.diocese), "en")

----------------------------------------------------------------------------
(* The two versions of the server compared, checked under SpecServer *)

\* the step of the handlers above does what the single-file handler does
\* when it starts with outcome m
StartsAs(m) ==
    IF m.kind = "return"
    THEN pc' = "done" /\ result' = ToolResponse(m.json, FALSE) /\ pending' = NoRequest
    ELSE pc' = "fetching" /\ pending'.url = m.url /\ pending'.locale = m.locale

\* C30: with an empty cache a call of one of the five tools returns at once
\* what the single-file handler returns at once, or issues the request (URL
\* and Accept-Language) that the single-file handler issues, also when the
\* nation given to get_liturgical_events is in lower case.
C30_SameAsMonolithic ==
    [][(pc = "idle" /\ cache = {} /\ args'.tool \in KnownTools) =>
          StartsAs(MonolithicStart(args', now, tz))]_vars

\* the two versions start alike for every call but those of
\* get_liturgical_events that name a nation or a diocese
SameAsMonolithicWithoutCode ==
    [][(pc = "idle" /\ cache = {} /\ args'.tool \in KnownTools
          /\ (args'.tool = "get_liturgical_events" =>
                 args'.nation = Undefined /\ args'.diocese = Undefined)) =>
          StartsAs(MonolithicStart(args', now, tz))]_vars

====
